---- MODULE Spec2Model ----
(***************************************************************************)
(* A model of the video-toolbox media pipelines:                           *)
(*   - the lazily initialised FFmpeg singleton of the audio-splitter and   *)
(*     audio-extractor modules (getFFmpeg),                                *)
(*   - splitAudio and extractAudioFromVideo, which drive that engine,      *)
(*   - convertVideoToGif and extractFrames, which drive a <video> element. *)
(* JavaScript runs one handler at a time: every action below is the code   *)
(* that runs between two suspension points (an await, or an event of the   *)
(* browser or of the engine).  Times are integers in milliseconds.         *)
(***************************************************************************)
EXTENDS Integers, Sequences, FiniteSets, TLC

(***************************************************************************)
(* Bounds of the model.                                                    *)
(***************************************************************************)
NCallers == 3
MaxInits == 2
MaxRuns == 2
MaxDurTicks == 4
MaxSegTicks == 5
TickMs == 500
MaxEngineEvents == 1
MaxFiles == 3
MaxDimension == 120
MaxPageFiles == 2
MaxBatches == 1
MaxProbes == 2
MaxPageRuns == 2

VARIABLES
    scenario,           \* which entry point the page exercises
    sabAvailable,       \* typeof SharedArrayBuffer !== "undefined"
    ffmpegInstance,     \* per module: 0 (null) or the id of the FFmpeg instance
    ffmpegLoading,      \* per module
    ffmpegLoadPromise,  \* per module: 0 (null) or the id of the promise
    initPc,             \* per module, per initialisation: where the async IIFE is
    nInits,             \* per module: how many FFmpeg objects were constructed
    netFetches,         \* per module: toBlobURL fetches started
    loadCalls,          \* per module: ffmpeg.load calls made
    callPc,             \* per getFFmpeg call site: idle / await / resolved / rejected
    callAwait,          \* the promise a suspended getFFmpeg call awaits
    callRes,            \* the value a getFFmpeg call resolved with (0 = null)
    engineFs,           \* per module, per FFmpeg instance: names in its virtual filesystem
    logHandlers,        \* per module, per FFmpeg instance: "log" listeners registered
    progressHandlers,   \* per module, per FFmpeg instance: the runs whose "progress" listener is registered
    run,                \* number of pipeline runs started on the page
    progLog,            \* per run: the events its onProgress callback received
    opLog,              \* engine operations the current run issued, in order
    sp,                 \* locals of the current splitAudio run
    xa,                 \* locals of the current extractAudioFromVideo run
    gf,                 \* locals of the current convertVideoToGif run
    xf,                 \* locals of the extractFrames batch and of its files
    dims,               \* the last direct call of calculateDimensions and its result
    probe,              \* the current direct call of getVideoMetadata
    fx,                 \* state of the FrameExtractor page component
    effect,             \* a tool page's file selection, its metadata probes, the metadata shown
    pg                  \* state of the VideoToGif page component

engineVars == <<ffmpegInstance, ffmpegLoading, ffmpegLoadPromise, initPc, nInits,
                netFetches, loadCalls>>
callVars == <<callPc, callAwait, callRes>>
envVars == <<scenario, sabAvailable>>
instVars == <<engineFs, logHandlers, progressHandlers>>
runVars == <<run, progLog, opLog>>
pipeVars == <<sp, xa, gf, xf>>
pageVars == <<dims, probe, fx, effect, pg>>
vars == <<envVars, engineVars, callVars, instVars, runVars, pipeVars, pageVars>>

Modules == {"audio-splitter", "audio-extractor"}
\* The two modules hold the same getFFmpeg; direct callers use this one.
HarnessModule == "audio-splitter"
InitIds == 1..MaxInits
HarnessCallers == 1..NCallers
SplitCaller == NCallers + 1
ExtractCaller == NCallers + 2
AllCallers == 1..(NCallers + 2)

\* The module whose singleton a call site uses.
CallerModule(c) ==
    IF c = SplitCaller THEN "audio-splitter"
    ELSE IF c = ExtractCaller THEN "audio-extractor"
    ELSE HarnessModule

\* State of the promise the n-th async IIFE of module m returned.
PromiseState(m, n) ==
    IF initPc[m][n] \in {"fetchCore", "fetchWasm", "load"} THEN "pending"
    ELSE IF initPc[m][n] = "ok" THEN "fulfilled"
    ELSE IF initPc[m][n] = "failed" THEN "rejected"
    ELSE "none"

\* getFFmpeg, second test: an initialisation is in flight, await it.
AwaitsInFlight_Never(m) == FALSE
AwaitsInFlight(m) == ffmpegLoading[m] /\ ffmpegLoadPromise[m] # 0

\* The catch block of the async IIFE: what it leaves in ffmpegLoading.
CatchLoading_Kept(m) == ffmpegLoading[m]
CatchLoading(m) == FALSE

\* if (typeof SharedArrayBuffer === "undefined") throw ...: the test lets
\* the initialisation go on to the downloads.
IsolationCheckPasses_Skipped == TRUE
IsolationCheckPasses == sabAvailable

\* The catch block of the async IIFE (ffmpegLoading = false; promise = null).
InitFailed(m, n) ==
    /\ ffmpegLoading' = [ffmpegLoading EXCEPT ![m] = CatchLoading(m)]
    /\ ffmpegLoadPromise' = [ffmpegLoadPromise EXCEPT ![m] = 0]
    /\ initPc' = [initPc EXCEPT ![m][n] = "failed"]

\* A call of getFFmpeg by call site c, up to its first suspension point.
GetFFmpegCall(c) ==
    LET m == CallerModule(c) IN
    IF ffmpegInstance[m] # 0 THEN
        /\ callPc' = [callPc EXCEPT ![c] = "resolved"]
        /\ callRes' = [callRes EXCEPT ![c] = ffmpegInstance[m]]
        /\ callAwait' = [callAwait EXCEPT ![c] = 0]
        /\ UNCHANGED engineVars
    ELSE IF AwaitsInFlight(m) THEN
        /\ callPc' = [callPc EXCEPT ![c] = "await"]
        /\ callAwait' = [callAwait EXCEPT ![c] = ffmpegLoadPromise[m]]
        /\ callRes' = [callRes EXCEPT ![c] = 0]
        /\ UNCHANGED engineVars
    ELSE
        LET n == nInits[m] + 1 IN
        /\ nInits[m] < MaxInits
        /\ nInits' = [nInits EXCEPT ![m] = n]
        /\ callPc' = [callPc EXCEPT ![c] = "await"]
        /\ callAwait' = [callAwait EXCEPT ![c] = n]
        /\ callRes' = [callRes EXCEPT ![c] = 0]
        /\ UNCHANGED <<ffmpegInstance, loadCalls>>
        /\ IF IsolationCheckPasses THEN
              \* the IIFE suspends at the first toBlobURL
              /\ ffmpegLoading' = [ffmpegLoading EXCEPT ![m] = TRUE]
              /\ ffmpegLoadPromise' = [ffmpegLoadPromise EXCEPT ![m] = n]
              /\ initPc' = [initPc EXCEPT ![m][n] = "fetchCore"]
              /\ netFetches' = [netFetches EXCEPT ![m] = @ + 1]
           ELSE
              \* the IIFE throws and runs its catch block synchronously; the
              \* rejected promise it returns is then stored in ffmpegLoadPromise
              /\ ffmpegLoading' = [ffmpegLoading EXCEPT ![m] = CatchLoading(m)]
              /\ ffmpegLoadPromise' = [ffmpegLoadPromise EXCEPT ![m] = n]
              /\ initPc' = [initPc EXCEPT ![m][n] = "failed"]
              /\ UNCHANGED netFetches

\* toBlobURL of ffmpeg-core.js settles.
FetchCoreDone(m, n) ==
    /\ initPc[m][n] = "fetchCore"
    /\ \/ /\ initPc' = [initPc EXCEPT ![m][n] = "fetchWasm"]
          /\ netFetches' = [netFetches EXCEPT ![m] = @ + 1]
          /\ UNCHANGED <<ffmpegLoading, ffmpegLoadPromise>>
       \/ /\ InitFailed(m, n)
          /\ UNCHANGED netFetches
    /\ UNCHANGED <<ffmpegInstance, nInits, loadCalls, callVars, envVars, pageVars, instVars, runVars, pipeVars>>

\* toBlobURL of ffmpeg-core.wasm settles; on success ffmpeg.load is called.
FetchWasmDone(m, n) ==
    /\ initPc[m][n] = "fetchWasm"
    /\ \/ /\ initPc' = [initPc EXCEPT ![m][n] = "load"]
          /\ loadCalls' = [loadCalls EXCEPT ![m] = @ + 1]
          /\ UNCHANGED <<ffmpegLoading, ffmpegLoadPromise>>
       \/ /\ InitFailed(m, n)
          /\ UNCHANGED loadCalls
    /\ UNCHANGED <<ffmpegInstance, nInits, netFetches, callVars, envVars, pageVars, instVars, runVars, pipeVars>>

\* ffmpeg.load settles.
LoadDone(m, n) ==
    /\ initPc[m][n] = "load"
    /\ \/ /\ ffmpegInstance' = [ffmpegInstance EXCEPT ![m] = n]
          /\ ffmpegLoading' = [ffmpegLoading EXCEPT ![m] = FALSE]
          /\ initPc' = [initPc EXCEPT ![m][n] = "ok"]
          /\ UNCHANGED ffmpegLoadPromise
       \/ /\ InitFailed(m, n)
          /\ UNCHANGED ffmpegInstance
    /\ UNCHANGED <<nInits, netFetches, loadCalls, callVars, envVars, pageVars, instVars, runVars, pipeVars>>

\* The continuation of a getFFmpeg call after `await ffmpegLoadPromise`.
GetFFmpegResume(c) ==
    LET m == CallerModule(c) IN
    /\ callPc[c] = "await"
    /\ PromiseState(m, callAwait[c]) \in {"fulfilled", "rejected"}
    /\ IF PromiseState(m, callAwait[c]) = "fulfilled"
       THEN /\ callPc' = [callPc EXCEPT ![c] = "resolved"]
            /\ callRes' = [callRes EXCEPT ![c] = ffmpegInstance[m]]
       ELSE /\ callPc' = [callPc EXCEPT ![c] = "rejected"]
            /\ UNCHANGED callRes
    /\ UNCHANGED <<callAwait, engineVars>>

\* A direct client of getFFmpeg calls it (again).
HarnessCall(c) ==
    /\ scenario = "getFFmpeg"
    /\ callPc[c] \in {"idle", "resolved", "rejected"}
    /\ GetFFmpegCall(c)
    /\ UNCHANGED <<envVars, pageVars, instVars, runVars, pipeVars>>

HarnessResume(c) ==
    /\ scenario = "getFFmpeg"
    /\ GetFFmpegResume(c)
    /\ UNCHANGED <<envVars, pageVars, instVars, runVars, pipeVars>>

(***************************************************************************)
(* Helpers shared by the pipelines.                                        *)
(***************************************************************************)
\* Math.ceil(a / b) for a >= 0, b > 0.
CeilDiv(a, b) == (a + b - 1) \div b

\* String(n).padStart(3, "0") for n >= 0.
PadStart3(n) ==
    IF n < 10 THEN "00" \o ToString(n)
    ELSE IF n < 100 THEN "0" \o ToString(n)
    ELSE ToString(n)

\* The decimals of a fraction of f thousandths, 0 < f < 1000, as
\* Number.prototype.toString prints them (no trailing zero).
FractionDigits(f) ==
    IF f % 100 = 0 THEN ToString(f \div 100)
    ELSE IF f % 10 = 0
         THEN (IF f < 100 THEN "0" ELSE "") \o ToString(f \div 10)
         ELSE (IF f < 10 THEN "00" ELSE IF f < 100 THEN "0" ELSE "") \o ToString(f)

\* Number.prototype.toString of the time ms / 1000 seconds, ms >= 0.
NumToString(ms) ==
    IF ms % 1000 = 0 THEN ToString(ms \div 1000)
    ELSE ToString(ms \div 1000) \o "." \o FractionDigits(ms % 1000)

\* onProgress?.({stage, progress}) of the current run.
Emit(log, stage, pct) == Append(log, [stage |-> stage, progress |-> pct])

\* A virtual filesystem after writing, or deleting, a name.
FsAdd(fs, m, inst, name) == [fs EXCEPT ![m][inst] = @ \cup {name}]
FsDel(fs, m, inst, name) == [fs EXCEPT ![m][inst] = @ \ {name}]

\* URL.revokeObjectURL(element.src): an object URL is "none" before it is
\* made, then "live", then "revoked".
RevokeObjectURL_Skipped(url) == url
RevokeObjectURL(url) == IF url = "live" THEN "revoked" ELSE url

\* What a run can see of its module's engine singleton.
EngineSnapshot(m) ==
    [instance |-> ffmpegInstance[m], loading |-> ffmpegLoading[m],
     promise |-> ffmpegLoadPromise[m], inits |-> nInits[m],
     fetches |-> netFetches[m], loads |-> loadCalls[m], fs |-> engineFs[m]]

(***************************************************************************)
(* splitAudio(file, segmentLength, onProgress)                             *)
(***************************************************************************)
\* The audio file of the run: file.name is base "." ext.
AudioFile == [base |-> "talk", ext |-> "mp3"]

\* Durations the audio element may report, and segment lengths a caller
\* may pass (zero and a negative one included), in milliseconds.
Durations == {k * TickMs : k \in 0..MaxDurTicks}
SegmentLengths == {k * TickMs : k \in (0 - 1)..MaxSegTicks}

SplitModule == "audio-splitter"
SplitInputName(file) == "input." \o file.ext
SplitOutputName(file, i) == "output-segment-" \o PadStart3(i + 1) \o "." \o file.ext
\* const segmentFileName = `${baseName}-segment-${String(i + 1).padStart(3, "0")}.${fileExtension}`
SegmentFileName_ZeroBased(file, i) == file.base \o "-segment-" \o PadStart3(i) \o "." \o file.ext
SegmentFileName(file, i) == file.base \o "-segment-" \o PadStart3(i + 1) \o "." \o file.ext

\* if (segmentLength <= 0) throw ...; a comparison with NaN is false.
SegmentNotPositive(L, nan) == ~nan /\ L <= 0

\* const totalSegments = Math.ceil(duration / segmentLength), as the number
\* of iterations `for (i = 0; i < totalSegments; i++)` makes: none when
\* segmentLength, and with it totalSegments, is NaN.
TotalSegments(D, L, nan) == IF nan THEN 0 ELSE CeilDiv(D, L)

\* if (segmentLength > duration) throw ...
SegmentTooLong_OrEqual(L, D) == L >= D
SegmentTooLong(L, D) == L > D

\* const startTime = i * segmentLength
SegmentStart_Shifted(i, L) == (i + 1) * L
SegmentStart(i, L) == i * L

\* The "-t" operand of the command of segment i.
SegmentDuration_Remaining(i, L, D) == IF (i + 1) * L > D THEN D - i * L ELSE L
SegmentDuration(i, L, D) == L

\* progress: 20 + Math.floor((i / totalSegments) * 70)
SplitProgress_NoBase(i, N) == (i * 70) \div N
SplitProgress(i, N) == 20 + (i * 70) \div N

\* The args of ffmpeg.exec for segment i.
SegmentArgs(file, i, L, D) ==
    [op |-> "exec", input |-> SplitInputName(file),
     ss |-> NumToString(SegmentStart(i, L)),
     t |-> NumToString(SegmentDuration(i, L, D)),
     name |-> SplitOutputName(file, i)]

FileOp(op, name) == [op |-> op, input |-> "", ss |-> "", t |-> "", name |-> name]

\* The outer catch of splitAudio: rethrow, nothing is returned.
SplitCatch_Partial(s, msg) == [s EXCEPT !.pc = "resolved", !.err = msg, !.ret = s.files]
SplitCatch(s, msg) == [s EXCEPT !.pc = "rejected", !.err = msg]

SplitIdle ==
    [pc |-> "idle", L |-> 0, nan |-> FALSE, D |-> 0, N |-> 0, i |-> 0, ffmpeg |-> 0,
     files |-> <<>>, ret |-> <<>>, err |-> "", failOp |-> "", staged |-> {},
     url |-> "none", engine0 |-> EngineSnapshot(SplitModule)]

\* The body of splitAudio up to `await getAudioMetadata(file)`, which has
\* set audio.src to a new object URL.  The
\* segment length is L milliseconds, or NaN (then L is 0 and unused).
SplitStart(L, nan) ==
    /\ scenario = "splitAudio"
    /\ sp.pc \in {"idle", "resolved", "rejected"}
    /\ run < MaxRuns
    /\ run' = run + 1
    /\ progLog' = [r \in 1..MaxRuns |->
                     IF r = run + 1 THEN Emit(<<>>, "loading", 0) ELSE <<>>]
    /\ opLog' = <<>>
    /\ sp' = [SplitIdle EXCEPT !.pc = "meta", !.L = L, !.nan = nan, !.url = "live"]
    /\ UNCHANGED <<envVars, pageVars, engineVars, callVars, instVars, xa, gf, xf>>

\* getAudioMetadata settles (audio.onerror, or audio.onloadedmetadata with
\* duration D), revoking its URL; validation; the call of getFFmpeg.
SplitMetaDone ==
    LET probed == [sp EXCEPT !.url = RevokeObjectURL(@)] IN
    /\ sp.pc = "meta"
    /\ \/ /\ sp' = SplitCatch(probed, "Failed to load audio metadata")
          /\ UNCHANGED <<engineVars, callVars>>
       \/ \E D \in Durations :
            IF SegmentNotPositive(sp.L, sp.nan) THEN
                /\ sp' = SplitCatch([probed EXCEPT !.D = D],
                                    "Segment length must be greater than 0")
                /\ UNCHANGED <<engineVars, callVars>>
            ELSE IF ~sp.nan /\ SegmentTooLong(sp.L, D) THEN
                /\ sp' = SplitCatch([probed EXCEPT !.D = D],
                                    "Segment length cannot be greater than audio duration")
                /\ UNCHANGED <<engineVars, callVars>>
            ELSE
                /\ sp' = [probed EXCEPT !.D = D, !.N = TotalSegments(D, sp.L, sp.nan),
                                        !.pc = "acquire"]
                /\ GetFFmpegCall(SplitCaller)
    /\ UNCHANGED <<envVars, pageVars, instVars, runVars, xa, gf, xf>>

\* The getFFmpeg call of the run resumes after `await ffmpegLoadPromise`.
SplitGetFFmpegResume ==
    /\ sp.pc = "acquire"
    /\ GetFFmpegResume(SplitCaller)
    /\ UNCHANGED <<envVars, pageVars, instVars, runVars, pipeVars>>

\* `await getFFmpeg()` settles; progress 10; fetchFile(file) is started.
SplitAcquired ==
    /\ sp.pc = "acquire"
    /\ callPc[SplitCaller] \in {"resolved", "rejected"}
    /\ IF callPc[SplitCaller] = "resolved"
       THEN /\ sp' = [sp EXCEPT !.pc = "fetchFile", !.ffmpeg = callRes[SplitCaller]]
            /\ progLog' = [progLog EXCEPT ![run] = Emit(@, "loading", 10)]
       ELSE /\ sp' = SplitCatch(sp, "Failed to load FFmpeg")
            /\ UNCHANGED progLog
    /\ UNCHANGED <<envVars, pageVars, engineVars, callVars, instVars, run, opLog, xa, gf, xf>>

\* fetchFile settles; ffmpeg.writeFile(inputFileName, data) is called.
SplitFetchFileDone ==
    /\ sp.pc = "fetchFile"
    /\ \/ /\ sp.ffmpeg # 0
          /\ sp' = [sp EXCEPT !.pc = "write"]
          /\ opLog' = Append(opLog, FileOp("write", SplitInputName(AudioFile)))
       \/ /\ sp' = SplitCatch(sp, "Failed to read file")
          /\ UNCHANGED opLog
    /\ UNCHANGED <<envVars, pageVars, engineVars, callVars, instVars, run, progLog, xa, gf, xf>>

\* The head of the segment loop: progress, then ffmpeg.exec(args).
SplitIssueSegment_FanOut(i) ==
    /\ progLog' = [progLog EXCEPT ![run] =
                     Emit(IF i = 0 THEN Emit(@, "splitting", 20) ELSE @,
                          "splitting", SplitProgress(i, sp.N))]
    /\ opLog' = opLog \o [k \in 1..(sp.N - i) |->
                             SegmentArgs(AudioFile, i + k - 1, sp.L, sp.D)]
SplitIssueSegment(i) ==
    /\ progLog' = [progLog EXCEPT ![run] =
                     Emit(IF i = 0 THEN Emit(@, "splitting", 20) ELSE @,
                          "splitting", SplitProgress(i, sp.N))]
    /\ opLog' = Append(opLog, SegmentArgs(AudioFile, i, sp.L, sp.D))

\* writeFile settles; progress 20; the "log" listener; the first segment,
\* or deleteFile(input) at once when the loop makes no iteration.
SplitWriteDone ==
    /\ sp.pc = "write"
    /\ \/ /\ engineFs' = FsAdd(engineFs, SplitModule, sp.ffmpeg, SplitInputName(AudioFile))
          /\ logHandlers' = [logHandlers EXCEPT ![SplitModule][sp.ffmpeg] = @ + 1]
          /\ IF 0 < sp.N
             THEN /\ sp' = [sp EXCEPT !.pc = "exec", !.i = 0,
                                      !.staged = @ \cup {SplitInputName(AudioFile)}]
                  /\ SplitIssueSegment(0)
             ELSE /\ sp' = [sp EXCEPT !.pc = "delIn", !.i = 0,
                                      !.staged = @ \cup {SplitInputName(AudioFile)}]
                  /\ progLog' = [progLog EXCEPT ![run] = Emit(@, "splitting", 20)]
                  /\ opLog' = Append(opLog, FileOp("delete", SplitInputName(AudioFile)))
       \/ /\ sp' = SplitCatch(sp, "writeFile failed")
          /\ UNCHANGED <<engineFs, logHandlers, progLog, opLog>>
    /\ UNCHANGED <<envVars, pageVars, engineVars, callVars, progressHandlers, run, xa, gf, xf>>

\* ffmpeg.exec settles: it resolves (the engine wrote the output, or it
\* ended with a non-zero code and wrote none), or it rejects.
SplitExecDone ==
    LET out == SplitOutputName(AudioFile, sp.i) IN
    /\ sp.pc = "exec"
    /\ \/ /\ engineFs' = FsAdd(engineFs, SplitModule, sp.ffmpeg, out)
          /\ sp' = [sp EXCEPT !.pc = "read", !.staged = @ \cup {out}]
          /\ opLog' = Append(opLog, FileOp("read", out))
       \/ /\ UNCHANGED engineFs
          /\ sp' = [sp EXCEPT !.pc = "read"]
          /\ opLog' = Append(opLog, FileOp("read", out))
       \/ /\ \/ /\ engineFs' = FsAdd(engineFs, SplitModule, sp.ffmpeg, out)
                /\ sp' = SplitCatch([sp EXCEPT !.failOp = "exec", !.staged = @ \cup {out}],
                                    "FFmpeg failed for segment " \o ToString(sp.i + 1))
             \/ /\ UNCHANGED engineFs
                /\ sp' = SplitCatch([sp EXCEPT !.failOp = "exec"],
                                    "FFmpeg failed for segment " \o ToString(sp.i + 1))
          /\ UNCHANGED opLog
    /\ UNCHANGED <<envVars, pageVars, engineVars, callVars, logHandlers, progressHandlers, run, progLog, xa, gf, xf>>

\* ffmpeg.readFile settles; the artifact is pushed; deleteFile(output).
SplitReadDone ==
    LET out == SplitOutputName(AudioFile, sp.i) IN
    /\ sp.pc = "read"
    /\ \/ /\ out \in engineFs[SplitModule][sp.ffmpeg]
          /\ sp' = [sp EXCEPT !.pc = "delOut",
                      !.files = Append(@, [name |-> SegmentFileName(AudioFile, sp.i),
                                           segment |-> sp.i + 1])]
          /\ opLog' = Append(opLog, FileOp("delete", out))
       \/ /\ sp' = SplitCatch([sp EXCEPT !.failOp = "read"], "readFile failed")
          /\ UNCHANGED opLog
    /\ UNCHANGED <<envVars, pageVars, engineVars, callVars, instVars, run, progLog, xa, gf, xf>>

\* deleteFile(output) settles; the next segment, or deleteFile(input).
SplitDeleteOutputDone ==
    LET out == SplitOutputName(AudioFile, sp.i) IN
    /\ sp.pc = "delOut"
    /\ \/ /\ engineFs' = FsDel(engineFs, SplitModule, sp.ffmpeg, out)
          /\ IF sp.i + 1 < sp.N
             THEN /\ sp' = [sp EXCEPT !.pc = "exec", !.i = sp.i + 1]
                  /\ SplitIssueSegment(sp.i + 1)
             ELSE /\ sp' = [sp EXCEPT !.pc = "delIn", !.i = sp.i + 1]
                  /\ opLog' = Append(opLog, FileOp("delete", SplitInputName(AudioFile)))
                  /\ UNCHANGED progLog
       \/ /\ sp' = SplitCatch([sp EXCEPT !.failOp = "delete"], "deleteFile failed")
          /\ UNCHANGED <<engineFs, progLog, opLog>>
    /\ UNCHANGED <<envVars, pageVars, engineVars, callVars, logHandlers, progressHandlers, run, xa, gf, xf>>

\* deleteFile(input) settles; progress complete; the artifacts are returned.
SplitDeleteInputDone ==
    /\ sp.pc = "delIn"
    /\ \/ /\ engineFs' = FsDel(engineFs, SplitModule, sp.ffmpeg, SplitInputName(AudioFile))
          /\ progLog' = [progLog EXCEPT ![run] = Emit(@, "complete", 100)]
          /\ sp' = [sp EXCEPT !.pc = "resolved", !.ret = sp.files]
       \/ /\ sp' = SplitCatch([sp EXCEPT !.failOp = "delete"], "deleteFile failed")
          /\ UNCHANGED <<engineFs, progLog>>
    /\ UNCHANGED <<envVars, pageVars, engineVars, callVars, logHandlers, progressHandlers, run, opLog, xa, gf, xf>>

(***************************************************************************)
(* extractAudioFromVideo(file, options, onProgress)                        *)
(***************************************************************************)
VideoFile == [base |-> "clip", ext |-> "mp4"]
AudioFormats == {"mp3", "wav"}
AudioQualities == {"low", "medium", "high"}
\* Progress ratios the engine may report, in hundredths.
EngineRatios == {0, 50, 100}

ExtractModule == "audio-extractor"
ExtractInputName(file) == "input." \o file.ext
ExtractOutputName(format) == "output." \o format

\* The "-b:a" operand for mp3, none for wav.
Bitrate(format, quality) ==
    IF format # "mp3" THEN ""
    ELSE IF quality = "low" THEN "128k"
    ELSE IF quality = "medium" THEN "192k"
    ELSE "320k"

\* The args of ffmpeg.exec.
ExtractArgs(file, format, quality) ==
    [op |-> "exec", input |-> ExtractInputName(file),
     acodec |-> IF format = "mp3" THEN "libmp3lame" ELSE "pcm_s16le",
     bitrate |-> Bitrate(format, quality), name |-> ExtractOutputName(format)]

ExtractFileOp(op, name) ==
    [op |-> op, input |-> "", acodec |-> "", bitrate |-> "", name |-> name]

\* progressValue = 40 + Math.floor(ffmpegProgress * 0.5), ratio in hundredths.
ExtractProgress(ratio) == 40 + ratio \div 200

\* The outer catch of extractAudioFromVideo: rethrow.
ExtractCatch(x, msg) == [x EXCEPT !.pc = "rejected", !.err = msg]

ExtractIdle ==
    [pc |-> "idle", format |-> "mp3", quality |-> "low", ffmpeg |-> 0,
     ret |-> <<>>, err |-> "", failOp |-> "", staged |-> {}, events |-> 0]

\* The body up to `await getFFmpeg()`.
ExtractStart(format, quality) ==
    /\ scenario = "extractAudioFromVideo"
    /\ xa.pc \in {"idle", "resolved", "rejected"}
    /\ run < MaxRuns
    /\ run' = run + 1
    /\ progLog' = [progLog EXCEPT ![run + 1] = Emit(<<>>, "loading", 0)]
    /\ opLog' = <<>>
    /\ xa' = [ExtractIdle EXCEPT !.pc = "acquire", !.format = format, !.quality = quality]
    /\ GetFFmpegCall(ExtractCaller)
    /\ UNCHANGED <<envVars, pageVars, instVars, sp, gf, xf>>

ExtractGetFFmpegResume ==
    /\ xa.pc = "acquire"
    /\ GetFFmpegResume(ExtractCaller)
    /\ UNCHANGED <<envVars, pageVars, instVars, runVars, pipeVars>>

\* `await getFFmpeg()` settles; progress 20; fetchFile(file) is started.
ExtractAcquired ==
    /\ xa.pc = "acquire"
    /\ callPc[ExtractCaller] \in {"resolved", "rejected"}
    /\ IF callPc[ExtractCaller] = "resolved"
       THEN /\ xa' = [xa EXCEPT !.pc = "fetchFile", !.ffmpeg = callRes[ExtractCaller]]
            /\ progLog' = [progLog EXCEPT ![run] = Emit(@, "loading", 20)]
       ELSE /\ xa' = ExtractCatch(xa, "Failed to load FFmpeg")
            /\ UNCHANGED progLog
    /\ UNCHANGED <<envVars, pageVars, engineVars, callVars, instVars, run, opLog, sp, gf, xf>>

\* fetchFile settles; ffmpeg.writeFile(inputFileName, data) is called.
ExtractFetchFileDone ==
    /\ xa.pc = "fetchFile"
    /\ \/ /\ xa.ffmpeg # 0
          /\ xa' = [xa EXCEPT !.pc = "write"]
          /\ opLog' = Append(opLog, ExtractFileOp("write", ExtractInputName(VideoFile)))
       \/ /\ xa' = ExtractCatch(xa, "Failed to read file")
          /\ UNCHANGED opLog
    /\ UNCHANGED <<envVars, pageVars, engineVars, callVars, instVars, run, progLog, sp, gf, xf>>

\* writeFile settles; progress 40; both listeners are registered; exec.
ExtractWriteDone ==
    /\ xa.pc = "write"
    /\ \/ /\ engineFs' = FsAdd(engineFs, ExtractModule, xa.ffmpeg, ExtractInputName(VideoFile))
          /\ progressHandlers' = [progressHandlers EXCEPT
                                    ![ExtractModule][xa.ffmpeg] = Append(@, run)]
          /\ logHandlers' = [logHandlers EXCEPT ![ExtractModule][xa.ffmpeg] = @ + 1]
          /\ progLog' = [progLog EXCEPT ![run] = Emit(@, "extracting", 40)]
          /\ opLog' = Append(opLog, ExtractArgs(VideoFile, xa.format, xa.quality))
          /\ xa' = [xa EXCEPT !.pc = "exec",
                              !.staged = @ \cup {ExtractInputName(VideoFile)}]
       \/ /\ xa' = ExtractCatch(xa, "writeFile failed")
          /\ UNCHANGED <<instVars, progLog, opLog>>
    /\ UNCHANGED <<envVars, pageVars, engineVars, callVars, run, sp, gf, xf>>

\* The engine reports progress while the command runs: every registered
\* "progress" listener calls the onProgress of the run that registered it.
ExtractEngineProgress(ratio) ==
    /\ xa.pc = "exec"
    /\ xa.events < MaxEngineEvents
    /\ xa' = [xa EXCEPT !.events = @ + 1]
    /\ LET hs == progressHandlers[ExtractModule][xa.ffmpeg]
           Calls(r) == Cardinality({j \in 1..Len(hs) : hs[j] = r})
           Deliver(log, k) ==
               IF k = 0 THEN log
               ELSE IF k = 1 THEN Emit(log, "extracting", ExtractProgress(ratio))
               ELSE Emit(Emit(log, "extracting", ExtractProgress(ratio)),
                         "extracting", ExtractProgress(ratio))
       IN progLog' = [r \in 1..MaxRuns |-> Deliver(progLog[r], Calls(r))]
    /\ UNCHANGED <<envVars, pageVars, engineVars, callVars, instVars, run, opLog, sp, gf, xf>>

\* ffmpeg.exec settles; progress 90; readFile(output) is called.
ExtractExecDone ==
    LET out == ExtractOutputName(xa.format) IN
    /\ xa.pc = "exec"
    /\ \/ /\ engineFs' = FsAdd(engineFs, ExtractModule, xa.ffmpeg, out)
          /\ xa' = [xa EXCEPT !.pc = "read", !.staged = @ \cup {out}]
          /\ progLog' = [progLog EXCEPT ![run] = Emit(@, "encoding", 90)]
          /\ opLog' = Append(opLog, ExtractFileOp("read", out))
       \/ /\ UNCHANGED engineFs
          /\ xa' = [xa EXCEPT !.pc = "read"]
          /\ progLog' = [progLog EXCEPT ![run] = Emit(@, "encoding", 90)]
          /\ opLog' = Append(opLog, ExtractFileOp("read", out))
       \/ /\ \/ /\ engineFs' = FsAdd(engineFs, ExtractModule, xa.ffmpeg, out)
                /\ xa' = ExtractCatch([xa EXCEPT !.failOp = "exec", !.staged = @ \cup {out}],
                                      "FFmpeg failed")
             \/ /\ UNCHANGED engineFs
                /\ xa' = ExtractCatch([xa EXCEPT !.failOp = "exec"], "FFmpeg failed")
          /\ UNCHANGED <<progLog, opLog>>
    /\ UNCHANGED <<envVars, pageVars, engineVars, callVars, logHandlers, progressHandlers, run, sp, gf, xf>>

\* readFile settles; the blob is built; deleteFile(input) is called.
ExtractReadDone ==
    LET out == ExtractOutputName(xa.format) IN
    /\ xa.pc = "read"
    /\ \/ /\ out \in engineFs[ExtractModule][xa.ffmpeg]
          /\ xa' = [xa EXCEPT !.pc = "delIn"]
          /\ opLog' = Append(opLog, ExtractFileOp("delete", ExtractInputName(VideoFile)))
       \/ /\ xa' = ExtractCatch([xa EXCEPT !.failOp = "read"], "readFile failed")
          /\ UNCHANGED opLog
    /\ UNCHANGED <<envVars, pageVars, engineVars, callVars, instVars, run, progLog, sp, gf, xf>>

\* deleteFile(input) settles; deleteFile(output) is called.
ExtractDeleteInputDone ==
    /\ xa.pc = "delIn"
    /\ \/ /\ engineFs' = FsDel(engineFs, ExtractModule, xa.ffmpeg, ExtractInputName(VideoFile))
          /\ xa' = [xa EXCEPT !.pc = "delOut"]
          /\ opLog' = Append(opLog, ExtractFileOp("delete", ExtractOutputName(xa.format)))
       \/ /\ xa' = ExtractCatch([xa EXCEPT !.failOp = "delete"], "deleteFile failed")
          /\ UNCHANGED <<engineFs, opLog>>
    /\ UNCHANGED <<envVars, pageVars, engineVars, callVars, logHandlers, progressHandlers, run, progLog, sp, gf, xf>>

\* deleteFile(output) settles; progress complete; the artifact is returned.
ExtractDeleteOutputDone ==
    /\ xa.pc = "delOut"
    /\ \/ /\ engineFs' = FsDel(engineFs, ExtractModule, xa.ffmpeg, ExtractOutputName(xa.format))
          /\ progLog' = [progLog EXCEPT ![run] = Emit(@, "complete", 100)]
          /\ xa' = [xa EXCEPT !.pc = "resolved",
                      !.ret = <<[name |-> VideoFile.base \o "." \o xa.format]>>]
       \/ /\ xa' = ExtractCatch([xa EXCEPT !.failOp = "delete"], "deleteFile failed")
          /\ UNCHANGED <<engineFs, progLog>>
    /\ UNCHANGED <<envVars, pageVars, engineVars, callVars, logHandlers, progressHandlers, run, opLog, sp, gf, xf>>

(***************************************************************************)
(* convertVideoToGif(file, options, onProgress)                            *)
(***************************************************************************)
\* Options and video durations the runs are given (times in milliseconds).
FpsChoices == {1, 2}
StartTimes == {0, TickMs}
MaxDurations == {2 * TickMs, 20 * TickMs}
VideoDurations == {k * TickMs : k \in 1..MaxDurTicks}
\* Progress ratios the encoder may report, in hundredths.
EncoderRatios == {0, 50, 100}
\* quality, scale (in hundredths) and workers of the options: the defaults,
\* and one value outside its documented range for each.
DEFAULT_OPTIONS == [quality |-> 10, scale |-> 50, workers |-> 4]
GifOptionChoices ==
    {DEFAULT_OPTIONS,
     [DEFAULT_OPTIONS EXCEPT !.quality = 21],
     [DEFAULT_OPTIONS EXCEPT !.scale = 150],
     [DEFAULT_OPTIONS EXCEPT !.workers = 1]}
\* video.videoWidth and video.videoHeight of the loaded video.
VideoSize == [width |-> 101, height |-> 58]

\* Math.round(a / b) for a >= 0, b > 0.
RoundDiv(a, b) == (2 * a + b) \div (2 * b)

\* Math.max(width, 10)
MinDimension_None(w) == w
MinDimension(w) == IF w > 10 THEN w ELSE 10

\* Math.round(width / 2) * 2
EvenDimension_Kept(w) == w
EvenDimension(w) == RoundDiv(w, 2) * 2

\* calculateDimensions(originalWidth, originalHeight, scale), the scale in
\* hundredths.
calculateDimensions(originalWidth, originalHeight, scale) ==
    [width |-> EvenDimension(MinDimension(RoundDiv(originalWidth * scale, 100))),
     height |-> EvenDimension(MinDimension(RoundDiv(originalHeight * scale, 100)))]

\* const totalFrames = Math.max(1, Math.floor(duration * options.fps))
TotalFrames(fps, start, maxDur, vdur) ==
    LET endTime == IF start + maxDur < vdur THEN start + maxDur ELSE vdur
        duration == endTime - start
        frames == (duration * fps) \div 1000
    IN IF frames > 1 THEN frames ELSE 1

\* const seekTime = Math.min(startTime + i * frameInterval, video.duration - 0.01)
GifSeekTime(fps, start, vdur, i) ==
    LET time == start + (i * 1000) \div fps
    IN IF time < vdur - 10 THEN time ELSE vdur - 10

\* progress: Math.round(((i + 1) / totalFrames) * 100)
GifFrameProgress_Remaining(i, N) == RoundDiv((N - i - 1) * 100, N)
GifFrameProgress(i, N) == RoundDiv((i + 1) * 100, N)

\* URL.revokeObjectURL(video.src), then reject(...) of the promise: the
\* first settlement stands.
GifReject(g) ==
    LET r == [g EXCEPT !.url = RevokeObjectURL(@)]
    IN IF g.settle = "pending" THEN [r EXCEPT !.settle = "rejected"] ELSE r

\* URL.revokeObjectURL(video.src), then resolve(artifact) of the promise:
\* the first settlement stands.
GifResolve(g, file) ==
    LET r == [g EXCEPT !.url = RevokeObjectURL(@)]
    IN IF g.settle = "pending"
       THEN [r EXCEPT !.settle = "resolved", !.ret = <<[name |-> file.base \o ".gif"]>>]
       ELSE r

GifIdle ==
    [pc |-> "idle", settle |-> "none", fps |-> 1, start |-> 0, maxDur |-> 0,
     vdur |-> 0, N |-> 0, i |-> 0, seekTime |-> 0, frames |-> 0, ret |-> <<>>,
     errored |-> FALSE, events |-> 0, url |-> "none", options |-> DEFAULT_OPTIONS,
     gif |-> [workers |-> 0, quality |-> 0, width |-> 0, height |-> 0]]

\* The promise executor: canvas context, progress 0, video.src is set.
GifExecutor(fps, start, maxDur, options, ctxOk) ==
    /\ run' = run + 1
    /\ opLog' = <<>>
    /\ IF ctxOk
       THEN /\ gf' = [GifIdle EXCEPT !.pc = "loadMeta", !.settle = "pending",
                                     !.fps = fps, !.start = start, !.maxDur = maxDur,
                                     !.options = options, !.url = "live"]
            /\ progLog' = [r \in 1..MaxRuns |->
                             IF r = run + 1 THEN Emit(<<>>, "loading", 0) ELSE <<>>]
       ELSE /\ gf' = [GifIdle EXCEPT !.pc = "stopped", !.settle = "rejected"]
            /\ progLog' = [r \in 1..MaxRuns |-> <<>>]

\* convertVideoToGif is called.
GifStart(fps, start, maxDur, options, ctxOk) ==
    /\ scenario = "convertVideoToGif"
    /\ gf.pc \in {"idle", "finished", "stopped"}
    /\ run < MaxRuns
    /\ GifExecutor(fps, start, maxDur, options, ctxOk)
    /\ UNCHANGED <<envVars, pageVars, engineVars, callVars, instVars, sp, xa, xf>>

\* The next iteration of the frame loop: seekToTime(video, seekTime).
GifSeekNext(g, i) ==
    [g EXCEPT !.pc = "seek", !.i = i, !.seekTime = GifSeekTime(g.fps, g.start, g.vdur, i)]

\* video.onloadedmetadata up to the first `await seekToTime`: the canvas
\* size, the frame count, new GIF(...), the first seek.
GifLoadedMetadata(vdur) ==
    /\ gf.pc = "loadMeta"
    /\ LET N == TotalFrames(gf.fps, gf.start, gf.maxDur, vdur)
           canvas == calculateDimensions(VideoSize.width, VideoSize.height, gf.options.scale)
           gif == [workers |-> gf.options.workers, quality |-> gf.options.quality,
                   width |-> canvas.width, height |-> canvas.height]
       IN /\ gf' = GifSeekNext([gf EXCEPT !.vdur = vdur, !.N = N, !.gif = gif], 0)
          /\ progLog' = [progLog EXCEPT ![run] =
                           Emit(Emit(@, "loading", 100), "extracting", 0)]
    /\ UNCHANGED <<envVars, pageVars, engineVars, callVars, instVars, run, opLog, sp, xa, xf>>

\* "seeked": the frame is drawn and added; the next seek, or gif.render().
GifSeeked ==
    /\ gf.pc = "seek"
    /\ IF gf.i + 1 < gf.N
       THEN /\ gf' = GifSeekNext([gf EXCEPT !.frames = @ + 1], gf.i + 1)
            /\ progLog' = [progLog EXCEPT ![run] =
                             Emit(@, "extracting", GifFrameProgress(gf.i, gf.N))]
       ELSE /\ gf' = [gf EXCEPT !.frames = @ + 1, !.i = gf.i + 1, !.pc = "encode"]
            /\ progLog' = [progLog EXCEPT ![run] =
                             Emit(Emit(@, "extracting", GifFrameProgress(gf.i, gf.N)),
                                  "encoding", 0)]
    /\ UNCHANGED <<envVars, pageVars, engineVars, callVars, instVars, run, opLog, sp, xa, xf>>

\* The 5000 ms timer of seekToTime fires first: the catch block rejects.
GifSeekTimeout ==
    /\ gf.pc = "seek"
    /\ gf' = [GifReject(gf) EXCEPT !.pc = "stopped"]
    /\ UNCHANGED <<envVars, pageVars, engineVars, callVars, instVars, runVars, sp, xa, xf>>

\* gif.on("progress"): the encoder reports a ratio.
GifEncoderProgress(ratio) ==
    /\ gf.pc = "encode"
    /\ gf.events < MaxEngineEvents
    /\ gf' = [gf EXCEPT !.events = @ + 1]
    /\ progLog' = [progLog EXCEPT ![run] = Emit(@, "encoding", RoundDiv(ratio * 100, 100))]
    /\ UNCHANGED <<envVars, pageVars, engineVars, callVars, instVars, run, opLog, sp, xa, xf>>

\* gif.on("finished"): progress complete, the promise is resolved.
GifFinished ==
    /\ gf.pc = "encode"
    /\ gf' = [GifResolve(gf, VideoFile) EXCEPT !.pc = "finished"]
    /\ progLog' = [progLog EXCEPT ![run] = Emit(@, "complete", 100)]
    /\ UNCHANGED <<envVars, pageVars, engineVars, callVars, instVars, run, opLog, sp, xa, xf>>

\* video.onerror: the promise is rejected; a frame loop that is already
\* running is not stopped by it.
GifVideoError ==
    /\ gf.pc \in {"loadMeta", "seek", "encode"}
    /\ ~gf.errored
    /\ gf' = [GifReject(gf) EXCEPT !.errored = TRUE,
                                   !.pc = IF gf.pc = "loadMeta" THEN "stopped" ELSE gf.pc]
    /\ UNCHANGED <<envVars, pageVars, engineVars, callVars, instVars, runVars, sp, xa, xf>>

(***************************************************************************)
(* getVideoMetadata(file), called directly                                 *)
(***************************************************************************)
ProbeIdle == [pc |-> "idle", url |-> "none", duration |-> 0]

\* The promise executor: video.src is set to a new object URL.
GetVideoMetadataCall ==
    /\ scenario = "getVideoMetadata"
    /\ probe.pc \in {"idle", "resolved", "rejected"}
    /\ probe' = [ProbeIdle EXCEPT !.pc = "pending", !.url = "live"]
    /\ UNCHANGED <<envVars, engineVars, callVars, instVars, runVars, pipeVars, dims, fx, effect, pg>>

\* video.onloadedmetadata: resolve, then revoke the URL.
ProbeLoadedMetadata(duration) ==
    /\ probe.pc = "pending"
    /\ probe' = [probe EXCEPT !.pc = "resolved", !.duration = duration,
                              !.url = RevokeObjectURL(@)]
    /\ UNCHANGED <<envVars, engineVars, callVars, instVars, runVars, pipeVars, dims, fx, effect, pg>>

\* video.onerror: revoke the URL, then reject.
ProbeError ==
    /\ probe.pc = "pending"
    /\ probe' = [probe EXCEPT !.pc = "rejected", !.url = RevokeObjectURL(@)]
    /\ UNCHANGED <<envVars, engineVars, callVars, instVars, runVars, pipeVars, dims, fx, effect, pg>>

(***************************************************************************)
(* calculateDimensions(originalWidth, originalHeight, scale), called       *)
(* directly                                                                *)
(***************************************************************************)
\* Original sizes and scales (in hundredths) calculateDimensions is given;
\* the documented range of the scale is 0.1 to 1.0.
DimensionWidths == 0..MaxDimension
DimensionHeights == {9, 58, 405}
DimensionScales == {5, 10, 25, 50, 75, 100, 150}

DimsIdle ==
    [called |-> FALSE, originalWidth |-> 0, originalHeight |-> 0, scale |-> 0,
     width |-> 0, height |-> 0]

\* The direct call of calculateDimensions, with any of the inputs.
CalculateDimensionsCall ==
    /\ scenario = "calculateDimensions"
    /\ ~dims.called
    /\ \E originalWidth \in DimensionWidths, originalHeight \in DimensionHeights,
          scale \in DimensionScales :
          LET out == calculateDimensions(originalWidth, originalHeight, scale)
          IN dims' = [called |-> TRUE, originalWidth |-> originalWidth,
                      originalHeight |-> originalHeight, scale |-> scale,
                      width |-> out.width, height |-> out.height]
    /\ UNCHANGED <<envVars, engineVars, callVars, instVars, runVars, pipeVars, probe, fx, effect, pg>>

(***************************************************************************)
(* extractFrameFromVideo and extractFrames(files, options, onProgress)     *)
(***************************************************************************)
FileIds == 1..MaxFiles

\* File names, as sequences of tokens: "." and "/" stand for themselves,
\* any other token is a non-empty run of characters with no "." and no "/".
\* A batch of one, two or three files is one of these lists (a longer
\* batch counts on from the list of one).
FileNames ==
    << << <<"notes", ".">> >>,
       << <<"clip", ".", "mov">>, <<"clip", ".", "mp4">> >>,
       << <<"clip", ".", "mov">>, <<"archive", ".", "tar", ".", "gz">>, <<"noext">> >> >>
\* file.name of the j-th file of the batch.
FrameFileName(j) ==
    LET files == FileNames[((xf.n - 1) % Len(FileNames)) + 1]
    IN files[((j - 1) % Len(files)) + 1]

\* The string a sequence of tokens spells.
RECURSIVE Join(_)
Join(tokens) == IF tokens = <<>> THEN "" ELSE Head(tokens) \o Join(Tail(tokens))

\* name.replace(/\.[^/.]+$/, ""): a final "." followed by at least one
\* character, none of them "." or "/", is cut off.
StripExtension_FirstDot(name) ==
    IF \E k \in 1..Len(name) : name[k] = "."
    THEN SubSeq(name, 1, (CHOOSE k \in 1..Len(name) :
                            name[k] = "." /\ \A h \in 1..(k - 1) : name[h] # ".") - 1)
    ELSE name
StripExtension(name) ==
    LET n == Len(name) IN
    IF n >= 2 /\ name[n - 1] = "." /\ name[n] \notin {".", "/"}
    THEN SubSeq(name, 1, n - 2)
    ELSE name

\* const fileName = `${baseName}_${positionSuffix}.${extension}`
FrameArtifactName(name, position, format) ==
    Join(StripExtension(name)) \o "_"
        \o (IF position = "last" THEN "last-frame" ELSE "first-frame")
        \o "." \o format

\* Durations a video element may report, in milliseconds.
FrameDurations == {10, 40, 100, 5 * TickMs}

\* seekTime of onloadedmetadata: 0.01 for the first frame, and
\* Math.max(0, video.duration - 0.1) for the last.
FrameSeekTime_AtEnd(position, duration) ==
    IF position = "first" THEN 10 ELSE duration
FrameSeekTime(position, duration) ==
    IF position = "first" THEN 10
    ELSE IF duration - 100 > 0 THEN duration - 100 ELSE 0

\* extracted.push(result) inside the try; a rejection pushes nothing.
ExtractedAfter_Always(extracted, j, outcome) == Append(extracted, [src |-> j])
ExtractedAfter(extracted, j, outcome) ==
    IF outcome = "resolved" THEN Append(extracted, [src |-> j]) ELSE extracted

\* The catch of the loop body: log and continue.
FramesCatch_Rethrow(x) == [x EXCEPT !.pc = "rejected"]
FramesCatch(x) == x

FramesIdle ==
    [pc |-> "idle", n |-> 0, i |-> 0, extracted |-> <<>>, ret |-> <<>>,
     progress |-> <<>>, position |-> "last", format |-> "png",
     dur |-> 0, seek |-> 0,
     vid |-> [j \in FileIds |-> "new"],
     settled |-> [j \in FileIds |-> "none"],
     errored |-> [j \in FileIds |-> FALSE],
     name |-> [j \in FileIds |-> ""],
     url |-> [j \in FileIds |-> "none"]]

\* onProgress(i + 1, n), then extractFrameFromVideo(files[i]) up to the
\* moment video.src is set to a new object URL (or reject, before any URL
\* is made, when there is no canvas context).  dur and seek are
\* video.duration and video.currentTime of the new element.
FramesBeginFile(x, j, ctxOk) ==
    [x EXCEPT !.pc = "await", !.i = j,
              !.progress = Append(@, <<j, x.n>>),
              !.dur = 0, !.seek = 0,
              !.url[j] = IF ctxOk THEN "live" ELSE "none",
              !.vid[j] = IF ctxOk THEN "loadMeta" ELSE "closed",
              !.settled[j] = IF ctxOk THEN "pending" ELSE "rejected"]

\* The body of extractFrames(files, options) up to its first await.
FramesCall(n, position, format, ctxOk) ==
    LET x == [FramesIdle EXCEPT !.n = n, !.position = position, !.format = format]
    IN IF n = 0 THEN [x EXCEPT !.pc = "resolved"] ELSE FramesBeginFile(x, 1, ctxOk)

\* extractFrames is called with n files.
FramesStart(n, position, format, ctxOk) ==
    /\ scenario = "extractFrames"
    /\ xf.pc = "idle"
    /\ run < MaxRuns
    /\ run' = run + 1
    /\ xf' = FramesCall(n, position, format, ctxOk)
    /\ UNCHANGED <<envVars, pageVars, engineVars, callVars, instVars, progLog, opLog, sp, xa, gf>>

\* video.onloadedmetadata of file j: video.currentTime = seekTime.
FrameLoadedMetadata(j, duration) ==
    /\ xf.vid[j] = "loadMeta"
    /\ xf' = [xf EXCEPT !.vid[j] = "seeking", !.dur = duration,
                        !.seek = FrameSeekTime(xf.position, duration)]
    /\ UNCHANGED <<envVars, pageVars, engineVars, callVars, instVars, runVars, sp, xa, gf>>

\* video.onseeked of file j: drawImage, canvas.toBlob is started.
FrameSeeked(j) ==
    /\ xf.vid[j] = "seeking"
    /\ xf' = [xf EXCEPT !.vid[j] = "encoding"]
    /\ UNCHANGED <<envVars, pageVars, engineVars, callVars, instVars, runVars, sp, xa, gf>>

\* The toBlob callback of file j: the URL is revoked; resolve with the
\* named artifact, or reject on a null blob.
FrameBlob(j, blobOk) ==
    /\ xf.vid[j] = "encoding"
    /\ xf' = [xf EXCEPT !.vid[j] = "closed",
                        !.url[j] = RevokeObjectURL(@),
                        !.settled[j] = IF @ # "pending" THEN @
                                       ELSE IF blobOk THEN "resolved" ELSE "rejected",
                        !.name[j] = IF xf.settled[j] = "pending" /\ blobOk
                                    THEN FrameArtifactName(FrameFileName(j),
                                                           xf.position, xf.format)
                                    ELSE @]
    /\ UNCHANGED <<envVars, pageVars, engineVars, callVars, instVars, runVars, sp, xa, gf>>

\* video.onerror of file j: the URL is revoked; reject.
FrameVideoError(j) ==
    /\ xf.vid[j] \in {"loadMeta", "seeking", "encoding"}
    /\ ~xf.errored[j]
    /\ xf' = [xf EXCEPT !.errored[j] = TRUE,
                        !.url[j] = RevokeObjectURL(@),
                        !.vid[j] = IF @ = "encoding" THEN @ ELSE "closed",
                        !.settled[j] = IF @ = "pending" THEN "rejected" ELSE @]
    /\ UNCHANGED <<envVars, pageVars, engineVars, callVars, instVars, runVars, sp, xa, gf>>

\* `await extractFrameFromVideo(file, options)` settles: push or catch,
\* then the next file, or return extracted (the last video element, with
\* its duration and position, is dropped).
FramesContinue(ctxOk) ==
    /\ xf.pc = "await"
    /\ xf.settled[xf.i] \in {"resolved", "rejected"}
    /\ LET pushed == [xf EXCEPT !.extracted =
                        ExtractedAfter(xf.extracted, xf.i, xf.settled[xf.i])]
           caught == IF xf.settled[xf.i] = "rejected" THEN FramesCatch(pushed) ELSE pushed
       IN xf' = IF caught.pc = "rejected" THEN caught
                ELSE IF xf.i < xf.n THEN FramesBeginFile(caught, xf.i + 1, ctxOk)
                ELSE [caught EXCEPT !.pc = "resolved", !.ret = caught.extracted,
                                    !.dur = 0, !.seek = 0]
    /\ UNCHANGED <<envVars, pageVars, engineVars, callVars, instVars, runVars, sp, xa, gf>>

(***************************************************************************)
(* The metadata effect of the VideoToGif, AudioExtractor and AudioSplitter *)
(* pages: useEffect(() => {...}, [files])                                  *)
(***************************************************************************)
ToolPages == {"VideoToGif", "AudioExtractor", "AudioSplitter"}
\* The files a user may select: file k is a distinct File object, and its
\* metadata is written k; 0 stands for no file, and for null metadata.
SelectableFiles == {1, 2}

\* useState: files is [] and the metadata is null; no probe was started.
EffectInitial(page) == [page |-> page, files |-> 0, metadata |-> 0, probes |-> <<>>]

\* The promise chain of probe k settles: .then(setMetadata(metadata)) or
\* .catch(setMetadata(null)), whatever is selected by then.
MetadataAfter(e, k, ok) == IF ok THEN e.probes[k].file ELSE 0

\* newFiles.slice(0, 1) of handleFilesChange: the upload zone passes the
\* old files followed by the dropped one, so a dropped file is selected
\* only when nothing was selected.
SelectionAfterDrop(files, f) == IF files = 0 THEN f ELSE files

\* The user drops file f on the upload zone (f = 0: removes the selected
\* file): handleFilesChange sets a new `files` array, and the effect it
\* triggers starts a probe of files[0], or sets the metadata to null when
\* the selection is empty.  No run is in progress, so the zone is enabled.
EffectFilesChange(f) ==
    /\ scenario = "useEffect"
    /\ IF f # 0
       THEN /\ Len(effect.probes) < MaxProbes
            /\ LET selected == SelectionAfterDrop(effect.files, f)
               IN effect' = [effect EXCEPT !.files = selected,
                                !.probes = Append(@, [file |-> selected, pc |-> "pending"])]
       ELSE /\ effect.files # 0
            /\ effect' = [effect EXCEPT !.files = 0, !.metadata = 0]
    /\ UNCHANGED <<envVars, engineVars, callVars, instVars, runVars, pipeVars, dims, probe, fx, pg>>

\* getVideoMetadata / getAudioMetadata of probe k settles: onloadedmetadata
\* resolves it (ok), onerror rejects it.
EffectProbeSettled(k, ok) ==
    /\ scenario = "useEffect"
    /\ k \in 1..Len(effect.probes)
    /\ effect.probes[k].pc = "pending"
    /\ effect' = [effect EXCEPT
                    !.metadata = MetadataAfter(effect, k, ok),
                    !.probes[k].pc = IF ok THEN "resolved" ELSE "rejected"]
    /\ UNCHANGED <<envVars, engineVars, callVars, instVars, runVars, pipeVars, dims, probe, fx, pg>>

(***************************************************************************)
(* The VideoToGif page component                                           *)
(***************************************************************************)
\* disabled={files.length === 0 || isProcessing} of the action button.
ButtonDisabled(page) == page.files = 0 \/ page.isProcessing

\* disabled={isProcessing} of the upload zone: its drop handler, its file
\* input and the remove buttons.
UploadDisabled(page) == page.isProcessing

\* The options the page passes: fps 2 (the slider goes from 1 to 30), the
\* defaults otherwise.
PageFps == 2
PageStartTime == 0
PageMaxDuration == 20 * TickMs

\* useState: files, isProcessing, error (null is ""), processedFiles (each
\* artifact with the run that made it); lastRun records how the last call
\* the mounted component awaited went (the component keeps no such state).
PageInitial ==
    [files |-> 0, isProcessing |-> FALSE, error |-> "", processedFiles |-> <<>>,
     lastRun |-> "none"]

\* handleFilesChange: setFiles(newFiles.slice(0, 1)), setProcessedFiles([]),
\* setError(null); n = 1 is a dropped file, n = 0 the removal of the file.
PageFilesChange(n) ==
    /\ scenario = "VideoToGif"
    /\ ~UploadDisabled(pg)
    /\ n = 0 => pg.files # 0
    /\ pg' = [pg EXCEPT !.files = n, !.processedFiles = <<>>, !.error = "",
                        !.lastRun = "none"]
    /\ UNCHANGED <<envVars, engineVars, callVars, instVars, runVars, pipeVars, dims, probe, fx, effect>>

\* handleConvert up to `await convertVideoToGif(files[0], options, setProgress)`.
PageHandleConvert ==
    /\ scenario = "VideoToGif"
    /\ ~ButtonDisabled(pg)
    /\ run < MaxPageRuns
    /\ pg' = [pg EXCEPT !.isProcessing = TRUE, !.error = "", !.lastRun = "running"]
    /\ \E ctxOk \in BOOLEAN :
          GifExecutor(PageFps, PageStartTime, PageMaxDuration, DEFAULT_OPTIONS, ctxOk)
    /\ UNCHANGED <<envVars, engineVars, callVars, instVars, sp, xa, xf, dims, probe, fx, effect>>

\* `await convertVideoToGif(...)` settles in the mounted component:
\* setProcessedFiles([result]), or setError(message) in the catch; finally
\* setIsProcessing(false).
PageConvertSettled ==
    /\ scenario = "VideoToGif"
    /\ pg.isProcessing
    /\ gf.settle \in {"resolved", "rejected"}
    /\ pg' = [pg EXCEPT
                !.isProcessing = FALSE,
                !.lastRun = gf.settle,
                !.processedFiles = IF gf.settle = "resolved"
                                   THEN <<[name |-> gf.ret[1].name, run |-> run]>> ELSE @,
                !.error = IF gf.settle = "rejected"
                          THEN "Failed to convert video to GIF" ELSE @]
    /\ UNCHANGED <<envVars, engineVars, callVars, instVars, runVars, pipeVars, dims, probe, fx, effect>>

\* The user follows "Back to Toolbox" and the tool card of the home page:
\* the component is unmounted and mounted anew, its state is the initial
\* one; a call of convertVideoToGif that is in flight goes on.
PageRemount ==
    /\ scenario = "VideoToGif"
    /\ pg # PageInitial
    /\ pg' = PageInitial
    /\ UNCHANGED <<envVars, engineVars, callVars, instVars, runVars, pipeVars, dims, probe, fx, effect>>

(***************************************************************************)
(* The FrameExtractor page component                                       *)
(***************************************************************************)
\* useState: the number of selected files (the k-th is FrameFileName(k)),
\* framePosition and outputFormat (the selects are left as they are),
\* isProcessing and extractedFrames; lastBatch records how the last call
\* of extractFrames went (the component keeps no such state).
FxInitial ==
    [files |-> 0, framePosition |-> "last", outputFormat |-> "png",
     isProcessing |-> FALSE, extractedFrames |-> <<>>, lastBatch |-> "none"]

\* onFilesChange = setFiles: files are added or removed; the upload zone is
\* disabled while a batch runs.
FxFilesChange ==
    /\ scenario = "FrameExtractor"
    /\ ~fx.isProcessing
    /\ \E n \in 0..MaxPageFiles :
          /\ n # fx.files
          /\ fx' = [fx EXCEPT !.files = n]
    /\ UNCHANGED <<envVars, engineVars, callVars, instVars, runVars, pipeVars, dims, probe, effect, pg>>

\* handleExtractFrames up to `await extractFrames(files, options)`; the
\* button is disabled without files and while a batch runs.
FxHandleExtractFrames ==
    /\ scenario = "FrameExtractor"
    /\ fx.files # 0
    /\ ~fx.isProcessing
    /\ run < MaxBatches
    /\ run' = run + 1
    /\ fx' = [fx EXCEPT !.isProcessing = TRUE, !.lastBatch = "running"]
    /\ \E ctxOk \in BOOLEAN :
          xf' = FramesCall(fx.files, fx.framePosition, fx.outputFormat, ctxOk)
    /\ UNCHANGED <<envVars, engineVars, callVars, instVars, progLog, opLog, sp, xa, gf,
                   dims, probe, effect, pg>>

\* `await extractFrames(...)` settles: setExtractedFrames(results), or
\* console.error in the catch; finally setIsProcessing(false).  The locals
\* of the batch are gone.
FxExtractFramesSettled ==
    /\ fx.isProcessing
    /\ xf.pc \in {"resolved", "rejected"}
    /\ xf' = FramesIdle
    /\ fx' = [fx EXCEPT !.isProcessing = FALSE,
                        !.extractedFrames = IF xf.pc = "resolved" THEN xf.ret ELSE @,
                        !.lastBatch = IF xf.pc = "rejected" THEN "threw"
                                      ELSE IF xf.ret = <<>> THEN "allFailed"
                                      ELSE "extracted"]
    /\ UNCHANGED <<envVars, engineVars, callVars, instVars, runVars, sp, xa, gf, dims, probe, effect, pg>>

(***************************************************************************)
(* The page: client-side navigation.                                       *)
(***************************************************************************)
\* The user, once a run has given its result, leaves one audio tool for the
\* other through next/link: the page component unmounts and what it kept of
\* its last run goes with it; the document, and with it every imported
\* module and its singleton, stays.
SwitchTool ==
    /\ \/ scenario = "splitAudio" /\ sp.pc = "resolved"
       \/ scenario = "extractAudioFromVideo" /\ xa.pc = "resolved"
    /\ scenario' = IF scenario = "splitAudio" THEN "extractAudioFromVideo"
                   ELSE "splitAudio"
    /\ run < MaxRuns
    /\ sp' = SplitIdle
    /\ xa' = ExtractIdle
    /\ opLog' = <<>>
    /\ progLog' = [r \in 1..MaxRuns |-> <<>>]
    /\ UNCHANGED <<sabAvailable, pageVars, engineVars, callVars, instVars, run, gf, xf>>

EngineInit ==
    /\ ffmpegInstance = [m \in Modules |-> 0]
    /\ ffmpegLoading = [m \in Modules |-> FALSE]
    /\ ffmpegLoadPromise = [m \in Modules |-> 0]
    /\ initPc = [m \in Modules |-> [n \in InitIds |-> "unused"]]
    /\ nInits = [m \in Modules |-> 0]
    /\ netFetches = [m \in Modules |-> 0]
    /\ loadCalls = [m \in Modules |-> 0]
    /\ callPc = [c \in AllCallers |-> "idle"]
    /\ callAwait = [c \in AllCallers |-> 0]
    /\ callRes = [c \in AllCallers |-> 0]
    /\ engineFs = [m \in Modules |-> [n \in InitIds |-> {}]]
    /\ logHandlers = [m \in Modules |-> [n \in InitIds |-> 0]]
    /\ progressHandlers = [m \in Modules |-> [n \in InitIds |-> <<>>]]

RunInit ==
    /\ run = 0
    /\ progLog = [r \in 1..MaxRuns |-> <<>>]
    /\ opLog = <<>>
    /\ sp = SplitIdle
    /\ xa = ExtractIdle
    /\ gf = GifIdle
    /\ xf = FramesIdle

PageInit ==
    /\ dims = DimsIdle
    /\ probe = ProbeIdle
    /\ fx = FxInitial
    /\ pg = PageInitial
    /\ \E page \in (IF scenario = "useEffect" THEN ToolPages ELSE {"VideoToGif"}) :
          effect = EffectInitial(page)

Init ==
    /\ scenario \in {"getFFmpeg", "splitAudio", "extractAudioFromVideo",
                     "convertVideoToGif", "extractFrames", "calculateDimensions",
                     "getVideoMetadata", "FrameExtractor", "useEffect",
                     "VideoToGif"}
    /\ sabAvailable \in BOOLEAN
    /\ EngineInit
    /\ RunInit
    /\ PageInit

Next ==
    \/ \E c \in HarnessCallers : HarnessCall(c)
    \/ \E c \in HarnessCallers : HarnessResume(c)
    \/ \E m \in Modules, n \in InitIds : FetchCoreDone(m, n)
    \/ \E m \in Modules, n \in InitIds : FetchWasmDone(m, n)
    \/ \E m \in Modules, n \in InitIds : LoadDone(m, n)
    \/ \E L \in SegmentLengths : SplitStart(L, FALSE)
    \/ SplitStart(0, TRUE)
    \/ SplitMetaDone
    \/ SplitGetFFmpegResume
    \/ SplitAcquired
    \/ SplitFetchFileDone
    \/ SplitWriteDone
    \/ SplitExecDone
    \/ SplitReadDone
    \/ SplitDeleteOutputDone
    \/ SplitDeleteInputDone
    \/ \E f \in AudioFormats, q \in AudioQualities : ExtractStart(f, q)
    \/ ExtractGetFFmpegResume
    \/ ExtractAcquired
    \/ ExtractFetchFileDone
    \/ ExtractWriteDone
    \/ \E ratio \in EngineRatios : ExtractEngineProgress(ratio)
    \/ ExtractExecDone
    \/ ExtractReadDone
    \/ ExtractDeleteInputDone
    \/ ExtractDeleteOutputDone
    \/ \E fps \in FpsChoices, st \in StartTimes, md \in MaxDurations,
          o \in GifOptionChoices : GifStart(fps, st, md, o, TRUE)
    \/ GifStart(1, 0, 0, DEFAULT_OPTIONS, FALSE)
    \/ \E vdur \in VideoDurations : GifLoadedMetadata(vdur)
    \/ GifSeeked
    \/ GifSeekTimeout
    \/ \E ratio \in EncoderRatios : GifEncoderProgress(ratio)
    \/ GifFinished
    \/ GifVideoError
    \/ \E n \in 0..MaxFiles, p \in {"first", "last"}, f \in {"png", "jpeg"},
          ok \in BOOLEAN : FramesStart(n, p, f, ok)
    \/ \E j \in FileIds, d \in FrameDurations : FrameLoadedMetadata(j, d)
    \/ \E j \in FileIds : FrameSeeked(j)
    \/ \E j \in FileIds, ok \in BOOLEAN : FrameBlob(j, ok)
    \/ \E j \in FileIds : FrameVideoError(j)
    \/ \E ok \in BOOLEAN : FramesContinue(ok)
    \/ SwitchTool
    \/ FxFilesChange
    \/ FxHandleExtractFrames
    \/ FxExtractFramesSettled
    \/ GetVideoMetadataCall
    \/ \E d \in VideoDurations : ProbeLoadedMetadata(d)
    \/ ProbeError
    \/ CalculateDimensionsCall
    \/ \E f \in SelectableFiles \cup {0} : EffectFilesChange(f)
    \/ \E n \in {0, 1} : PageFilesChange(n)
    \/ PageHandleConvert
    \/ PageConvertSettled
    \/ PageRemount
    \/ \E k \in 1..MaxProbes, ok \in BOOLEAN : EffectProbeSettled(k, ok)

Spec == Init /\ [][Next]_vars

\* What the browser guarantees to run once it is due: the timer of
\* seekToTime, the callback of canvas.toBlob, and the continuation of an
\* await whose promise has settled.  The media events (loadedmetadata,
\* seeked, error) are the decoder's: nothing guarantees them.
Fairness ==
    /\ WF_vars(GifSeekTimeout)
    /\ WF_vars(\E j \in FileIds, ok \in BOOLEAN : FrameBlob(j, ok))
    /\ WF_vars(\E ok \in BOOLEAN : FramesContinue(ok))

LiveSpec == Spec /\ Fairness

(***************************************************************************)
(* Properties.                                                             *)
(***************************************************************************)
InFlight(m) == {n \in InitIds : initPc[m][n] \in {"fetchCore", "fetchWasm", "load"}}
Succeeded(m) == {n \in InitIds : initPc[m][n] = "ok"}
Failed(m) == {n \in InitIds : initPc[m][n] = "failed"}
Execs(log) == SelectSeq(log, LAMBDA e : e.op = "exec")
Last(log) == log[Len(log)]
NonDecreasing(log) ==
    \A j \in 1..(Len(log) - 1) : log[j].progress <= log[j + 1].progress

\* C1: within one module, however many getFFmpeg calls are made, at most
\* one initialisation is in flight at a time, at most one ever succeeds, no
\* initialisation is started beyond the first unless an earlier one failed
\* (so without a failure there is one FFmpeg object and one ffmpeg.load),
\* and every call that resolves yields that one loaded instance, never null.
C1_SingleEngineLoad ==
    \A m \in Modules :
        /\ Cardinality(InFlight(m)) <= 1
        /\ Cardinality(Succeeded(m)) <= 1
        /\ nInits[m] <= Cardinality(Failed(m)) + 1
        /\ loadCalls[m] <= Cardinality(Failed(m)) + 1
        /\ ffmpegInstance[m] # 0 => Succeeded(m) = {ffmpegInstance[m]}
        /\ \A c \in AllCallers :
              (CallerModule(c) = m /\ callPc[c] = "resolved") =>
                  /\ callRes[c] # 0
                  /\ callRes[c] = ffmpegInstance[m]
                  /\ initPc[m][callRes[c]] = "ok"

\* Two calls awaited the same initialisation, a third came after it had
\* finished, all three resolved, and one FFmpeg was built and loaded once.
C1_Witness ==
    /\ scenario = "getFFmpeg"
    /\ nInits[HarnessModule] = 1
    /\ loadCalls[HarnessModule] = 1
    /\ \A c \in HarnessCallers : callPc[c] = "resolved"
    /\ \E a, b, c \in HarnessCallers :
          /\ a # b
          /\ callAwait[a] = 1 /\ callAwait[b] = 1
          /\ callAwait[c] = 0

C2_State ==
    /\ \A c \in AllCallers :
          LET m == CallerModule(c) IN
          (callAwait[c] # 0 /\ PromiseState(m, callAwait[c]) = "rejected")
              => callPc[c] \in {"await", "rejected"}
    /\ \A m \in Modules :
          (Failed(m) # {} /\ InFlight(m) = {} /\ Succeeded(m) = {}) =>
              /\ ffmpegInstance[m] = 0
              /\ ~ffmpegLoading[m]
              /\ \/ ffmpegLoadPromise[m] = 0
                 \/ PromiseState(m, ffmpegLoadPromise[m]) = "rejected"

C2_Step ==
    \A c \in AllCallers :
        LET m == CallerModule(c) IN
        (/\ callPc[c] # "await" /\ callPc'[c] = "await"
         /\ Failed(m) # {} /\ InFlight(m) = {} /\ Succeeded(m) = {})
            => /\ nInits'[m] = nInits[m] + 1
               /\ callAwait'[c] = nInits'[m]
               /\ sabAvailable => /\ initPc'[m][nInits'[m]] = "fetchCore"
                                  /\ ffmpegLoading'[m]
                                  /\ ffmpegLoadPromise'[m] = nInits'[m]

\* C2: a call that awaited a failed initialisation never resolves (it is
\* rejected); once an initialisation has failed and none is in flight the
\* singleton has no instance, is not loading and holds no pending promise;
\* and a getFFmpeg call made in that state starts a fresh initialisation.
C2_FailureResets == [](C2_State) /\ [][C2_Step]_vars

\* The first initialisation failed and rejected two callers; a later call
\* started a second one, which succeeded and gave that caller the instance.
C2_Witness ==
    /\ scenario = "getFFmpeg"
    /\ initPc[HarnessModule][1] = "failed"
    /\ initPc[HarnessModule][2] = "ok"
    /\ \E a, b, c \in HarnessCallers :
          /\ a # b
          /\ callPc[a] = "rejected" /\ callAwait[a] = 1
          /\ callPc[b] = "rejected" /\ callAwait[b] = 1
          /\ callPc[c] = "resolved" /\ callRes[c] = 2

ExpectedFrames(upTo) ==
    SelectSeq([j \in 1..upTo |-> [src |-> j]],
              LAMBDA a : xf.settled[a.src] = "resolved")

\* C3: extractFrames never rejects, and when it resolves its result is the
\* artifacts of exactly the files whose extraction did not reject, in input
\* order (while it runs, the same holds of the files already awaited).
C3_BatchSkipsFailures ==
    scenario = "extractFrames" =>
        /\ xf.pc # "rejected"
        /\ xf.pc = "resolved" => xf.ret = ExpectedFrames(xf.n)
        /\ xf.pc = "await" => xf.extracted = ExpectedFrames(xf.i - 1)

\* Three files, the second failed: the result is the artifacts of #1 and #3.
C3_Witness ==
    /\ xf.pc = "resolved"
    /\ xf.n = 3
    /\ xf.settled = <<"resolved", "rejected", "resolved">>
    /\ xf.ret = <<[src |-> 1], [src |-> 3]>>

\* C4: a failure aborts the single-file run with no partial output: a
\* splitAudio run in which anything failed is rejected and returned nothing,
\* and when the command of segment i failed exactly i commands were issued;
\* a failed extractAudioFromVideo run and a rejected convertVideoToGif run
\* likewise carry no result.
C4_AbortNoPartialOutput ==
    /\ sp.err # "" => sp.pc = "rejected" /\ sp.ret = <<>>
    /\ sp.pc = "rejected" => sp.ret = <<>>
    /\ sp.failOp = "exec" =>
          /\ Len(Execs(opLog)) = sp.i + 1
          /\ Last(Execs(opLog)).name = SplitOutputName(AudioFile, sp.i)
          /\ Len(sp.files) = sp.i
    /\ xa.err # "" => xa.pc = "rejected" /\ xa.ret = <<>>
    /\ xa.pc = "rejected" => xa.ret = <<>>
    /\ gf.settle = "rejected" => gf.ret = <<>>

\* The command of the third segment failed after two segments were produced.
C4_Witness ==
    /\ sp.pc = "rejected"
    /\ sp.failOp = "exec"
    /\ sp.i = 2
    /\ Len(sp.files) = 2
    /\ sp.N = 4

\* C5: when a splitAudio or extractAudioFromVideo run has ended, the
\* engine's virtual filesystem holds no file that run staged.
C5_NoStagedFileLeft ==
    /\ sp.pc \in {"resolved", "rejected"} /\ sp.ffmpeg # 0
          => engineFs[SplitModule][sp.ffmpeg] \cap sp.staged = {}
    /\ xa.pc \in {"resolved", "rejected"} /\ xa.ffmpeg # 0
          => engineFs[ExtractModule][xa.ffmpeg] \cap xa.staged = {}

\* C6: the percents a splitAudio run passes to onProgress never decrease
\* and lie in 0..100; "complete" is only ever the last event; a run that
\* resolved ended with stage complete at 100.
C6_SplitProgressMonotone ==
    (scenario = "splitAudio" /\ run > 0) =>
        LET log == progLog[run] IN
        /\ NonDecreasing(log)
        /\ \A j \in 1..Len(log) : log[j].progress \in 0..100
        /\ \A j \in 1..Len(log) : log[j].stage = "complete" => j = Len(log)
        /\ sp.pc = "resolved" =>
              Last(log) = [stage |-> "complete", progress |-> 100]

\* A run of four segments resolved.
C6_Witness ==
    /\ sp.pc = "resolved"
    /\ sp.N = 4
    /\ Len(progLog[run]) = 8

StageRank(stage) ==
    CASE stage = "loading" -> 1
      [] stage = "extracting" -> 2
      [] stage = "encoding" -> 3
      [] stage = "complete" -> 4

\* C7 as stated: over a whole successful convertVideoToGif run the percents
\* never decrease, and the last event is complete at 100.
C7_GifProgressMonotone ==
    (scenario = "convertVideoToGif" /\ gf.settle = "resolved") =>
        /\ NonDecreasing(progLog[run])
        /\ Last(progLog[run]) = [stage |-> "complete", progress |-> 100]

\* C7 amended: in a successful convertVideoToGif run the stages come in the
\* order loading, extracting, encoding, complete; every percent lies in
\* 0..100; within the loading stage and within the extracting stage the
\* percents never decrease (each stage counts from 0 again); and the last
\* event is complete at 100.
C7_GifProgressPerStage ==
    (scenario = "convertVideoToGif" /\ gf.settle = "resolved") =>
        LET log == progLog[run] IN
        /\ \A j \in 1..(Len(log) - 1) :
              /\ StageRank(log[j].stage) <= StageRank(log[j + 1].stage)
              /\ (log[j].stage = log[j + 1].stage
                    /\ log[j].stage \in {"loading", "extracting"})
                    => log[j].progress <= log[j + 1].progress
        /\ \A j \in 1..Len(log) : log[j].progress \in 0..100
        /\ Last(log) = [stage |-> "complete", progress |-> 100]

\* A run of four frames resolved.
C7_Witness ==
    /\ gf.settle = "resolved"
    /\ gf.pc = "finished"
    /\ gf.N = 4
    /\ gf.frames = 4

\* The least n with n * L >= D, for 0 < L <= D.
PlannedCount(D, L) == CHOOSE n \in 1..D : n * L >= D /\ (n - 1) * L < D

\* C8: the k-th command splitAudio issues has -ss (k-1) * segmentLength
\* and writes output k; never more than ceil(D / L) commands are issued,
\* and a run that resolved issued exactly ceil(D / L) of them.
C8_SegmentPlan ==
    (scenario = "splitAudio" /\ sp.pc \notin {"idle", "meta"} /\ sp.N > 0) =>
        LET ex == Execs(opLog) IN
        /\ \A k \in 1..Len(ex) :
              /\ ex[k].ss = NumToString((k - 1) * sp.L)
              /\ ex[k].name = SplitOutputName(AudioFile, k - 1)
        /\ Len(ex) <= PlannedCount(sp.D, sp.L)
        /\ sp.N = PlannedCount(sp.D, sp.L)
        /\ sp.pc = "resolved" => Len(ex) = PlannedCount(sp.D, sp.L)

\* A resolved run that cut the audio in four: with segments of 0.5 s the
\* commands carry -ss 0, 0.5, 1 and 1.5.
C8_Witness ==
    /\ sp.pc = "resolved"
    /\ sp.D = 4 * sp.L
    /\ sp.L = 500
    /\ [k \in 1..4 |-> Execs(opLog)[k].ss] = <<"0", "0.5", "1", "1.5">>

\* C9 as stated: every command but the last requests -t segmentLength and
\* the last requests duration - (count-1) * segmentLength, so the requested
\* durations sum to the duration.
C9_DurationsSumToTotal ==
    (scenario = "splitAudio" /\ sp.pc = "resolved") =>
        LET ex == Execs(opLog) IN
        \A k \in 1..Len(ex) :
            ex[k].t = NumToString(IF k < Len(ex) THEN sp.L
                                  ELSE sp.D - (Len(ex) - 1) * sp.L)

\* C9 amended: with a segment length that is a number (not NaN) every
\* command, the last included, requests -t segmentLength; the requested durations of a resolved run sum to
\* count * segmentLength, which is at least the duration and less than the
\* duration plus one segment length.
C9_EverySegmentRequestsFullLength ==
    (scenario = "splitAudio" /\ ~sp.nan) =>
        LET ex == Execs(opLog) IN
        /\ \A k \in 1..Len(ex) : ex[k].t = NumToString(sp.L)
        /\ sp.pc = "resolved" =>
              /\ Len(ex) * sp.L >= sp.D
              /\ Len(ex) * sp.L < sp.D + sp.L

\* A resolved run whose last segment is shorter than the segment length.
C9_Witness ==
    /\ sp.pc = "resolved"
    /\ Len(Execs(opLog)) = 2
    /\ sp.D = 3 * TickMs
    /\ sp.L = 2 * TickMs

ValidationErrors ==
    {"Segment length must be greater than 0",
     "Segment length cannot be greater than audio duration"}

\* C10: for a segmentLength that is a number (not NaN): once the duration
\* is known, a segmentLength <= 0 or > duration
\* rejects the run with the validation error; a run rejected by validation
\* left the engine singleton and the virtual filesystem as they were when
\* it started and issued no engine operation; validation rejects nothing
\* else (segmentLength = duration passes); and a resolved run with
\* segmentLength = duration issued one command and returned one segment.
C10_InvalidSegmentLength ==
    (scenario = "splitAudio" /\ ~sp.nan) =>
        /\ (/\ sp.pc \notin {"idle", "meta"}
            /\ sp.err # "Failed to load audio metadata"
            /\ (sp.L <= 0 \/ sp.L > sp.D))
              => sp.pc = "rejected" /\ sp.err \in ValidationErrors
        /\ sp.err \in ValidationErrors =>
              /\ sp.L <= 0 \/ sp.L > sp.D
              /\ sp.pc = "rejected"
              /\ EngineSnapshot(SplitModule) = sp.engine0
              /\ opLog = <<>>
              /\ sp.staged = {}
              /\ sp.ffmpeg = 0
        /\ (sp.pc = "resolved" /\ sp.L = sp.D) =>
              /\ Len(Execs(opLog)) = 1
              /\ Len(sp.ret) = 1

\* A second run, on a Ready engine, was rejected for a too long segment.
C10_Witness ==
    /\ run = 2
    /\ sp.pc = "rejected"
    /\ sp.err = "Segment length cannot be greater than audio duration"
    /\ sp.L = sp.D + TickMs
    /\ ffmpegInstance[SplitModule] # 0

C12_State ==
    ~sabAvailable =>
        \A m \in Modules :
            /\ netFetches[m] = 0
            /\ loadCalls[m] = 0
            /\ InFlight(m) = {} /\ Succeeded(m) = {}
            /\ ffmpegInstance[m] = 0
            /\ ~ffmpegLoading[m]
            /\ \/ ffmpegLoadPromise[m] = 0
               \/ PromiseState(m, ffmpegLoadPromise[m]) = "rejected"
            /\ Cardinality(Failed(m)) = nInits[m]
            /\ \A c \in AllCallers :
                  CallerModule(c) = m => callPc[c] # "resolved"

C12_Step ==
    ~sabAvailable =>
        \A m \in Modules :
            nInits'[m] # nInits[m] =>
                /\ nInits'[m] = nInits[m] + 1
                /\ \E c \in AllCallers :
                      /\ CallerModule(c) = m
                      /\ callPc[c] # "await" /\ callPc'[c] = "await"
                      /\ callAwait'[c] = nInits'[m]

\* C12: without SharedArrayBuffer no getFFmpeg call ever starts a download
\* or an ffmpeg.load, none resolves, and every initialisation has failed by
\* the time the call that started it suspends, leaving the singleton with
\* no instance, not loading and with no pending promise; an initialisation
\* is only ever started by the step in which a call site enters getFFmpeg
\* (one per call, so nothing retries on its own), and a later call does
\* start a new one.
C12_FailsBeforeAnyFetch == [](C12_State) /\ [][C12_Step]_vars

\* Without SharedArrayBuffer a first call was rejected and a later call of
\* the same call site started, and failed, a second initialisation.
C12_Witness ==
    /\ scenario = "getFFmpeg"
    /\ ~sabAvailable
    /\ nInits[HarnessModule] = 2
    /\ Failed(HarnessModule) = {1, 2}
    /\ \E c \in HarnessCallers : callPc[c] = "rejected" /\ callAwait[c] = 2
    /\ netFetches[HarnessModule] = 0

\* The options of the current convertVideoToGif run lie in the ranges the
\* GifConversionOptions interface documents (scale in hundredths).
GifOptionsInRange ==
    /\ gf.fps \in 1..30
    /\ gf.options.quality \in 1..20
    /\ gf.options.scale \in 10..100
    /\ gf.options.workers \in 2..8

\* C11: a splitAudio run whose segmentLength is NaN does not resolve and
\* issues no engine operation, and a convertVideoToGif run whose fps,
\* quality, scale or workers lies outside its documented range does not
\* resolve and builds no encoder with it.
C11_InvalidNumbersRejected ==
    /\ (scenario = "splitAudio" /\ sp.nan) =>
          /\ sp.pc # "resolved"
          /\ opLog = <<>>
    /\ (scenario = "convertVideoToGif" /\ gf.pc # "idle" /\ ~GifOptionsInRange) =>
          /\ gf.settle # "resolved"
          /\ gf.gif.workers = 0

\* C13: over the document's lifetime at most one FFmpeg instance is ever
\* built and loaded, whichever of splitAudio and extractAudioFromVideo the
\* runs are: the modules' counts of FFmpeg objects, of ffmpeg.load calls and
\* of Ready singletons each sum to at most one unless an initialisation
\* failed.
C13_OneEnginePerDocument ==
    LET failed == Cardinality(Failed("audio-splitter")) + Cardinality(Failed("audio-extractor"))
    IN /\ Cardinality({m \in Modules : ffmpegInstance[m] # 0}) <= 1
       /\ nInits["audio-splitter"] + nInits["audio-extractor"] <= failed + 1
       /\ loadCalls["audio-splitter"] + loadCalls["audio-extractor"] <= failed + 1

\* The names of FileNames with their trailing extension cut off.
ExpectedBaseName(j) ==
    LET bases == << <<"notes.">>, <<"clip", "clip">>, <<"clip", "archive.tar", "noext">> >>
        files == bases[((xf.n - 1) % 3) + 1]
    IN files[((j - 1) % Len(files)) + 1]

\* C14: the artifact extractFrameFromVideo resolves with is named after the
\* source name without its trailing extension (only the last one goes; a
\* name without extension is kept whole), then "_first-frame" or
\* "_last-frame" as options.position says, then "." and options.format;
\* a call that did not resolve names nothing.
C14_FrameArtifactName ==
    \A j \in FileIds :
        /\ xf.settled[j] = "resolved" =>
              /\ xf.position = "first" =>
                    xf.name[j] = ExpectedBaseName(j) \o "_first-frame." \o xf.format
              /\ xf.position = "last" =>
                    xf.name[j] = ExpectedBaseName(j) \o "_last-frame." \o xf.format
        /\ xf.settled[j] # "resolved" => xf.name[j] = ""

\* A batch of clip.mov, archive.tar.gz and noext, last frame as png.
C14_Witness ==
    /\ xf.pc = "resolved"
    /\ Len(xf.ret) = 3
    /\ xf.name[1] = "clip_last-frame.png"
    /\ xf.name[2] = "archive.tar_last-frame.png"
    /\ xf.name[3] = "noext_last-frame.png"

\* The video element of the current file has reported its duration and the
\* seek has been requested.
FrameSeekRequested ==
    /\ xf.pc = "await"
    /\ xf.vid[xf.i] \in {"seeking", "encoding"}

\* C16 as stated: whatever the duration, the seek extractFrameFromVideo
\* requests is never the duration itself, is duration - 0.1 (not below 0)
\* for the last frame, and lies in [0, duration) for either position.
C16_SeekInsideDuration ==
    FrameSeekRequested =>
        /\ xf.seek # xf.dur
        /\ xf.position = "last" =>
              xf.seek = (IF xf.dur > 100 THEN xf.dur - 100 ELSE 0)
        /\ 0 <= xf.seek /\ xf.seek < xf.dur

\* C16 amended: for the last frame the requested seek is duration - 0.1,
\* or 0 when that is negative, which for a positive duration is never the
\* duration and lies in [0, duration); for the first frame it is 0.01
\* whatever the duration, which lies in [0, duration) when the duration
\* exceeds 0.01 s.
C16_LastSeekBeforeEnd ==
    FrameSeekRequested =>
        /\ xf.position = "last" =>
              /\ xf.seek = (IF xf.dur > 100 THEN xf.dur - 100 ELSE 0)
              /\ xf.seek # xf.dur
              /\ 0 <= xf.seek /\ xf.seek < xf.dur
        /\ xf.position = "first" =>
              /\ xf.seek = 10
              /\ xf.dur > 10 => xf.seek < xf.dur

\* The last frame of a video of 0.04 s is sought at 0, and the frame drawn.
C16_Witness ==
    /\ FrameSeekRequested
    /\ xf.position = "last"
    /\ xf.vid[xf.i] = "encoding"
    /\ xf.dur = 40
    /\ xf.seek = 0

Reads(log) == SelectSeq(log, LAMBDA e : e.op = "read")

C17_SeekAlwaysSettles ==
    /\ \A i \in 0..MaxDurTicks :
          (gf.pc = "seek" /\ gf.i = i) ~> ~(gf.pc = "seek" /\ gf.i = i)
    /\ \A j \in FileIds :
          (xf.vid[j] = "seeking" /\ xf.settled[j] = "pending")
              ~> (xf.settled[j] # "pending")
    /\ \A j \in FileIds :
          (xf.pc = "await" /\ xf.i = j /\ xf.vid[j] = "seeking")
              ~> (xf.pc # "await" \/ xf.i # j)

\* Math.round(original * scale), the scale in hundredths: the integer r
\* with r - 1/2 <= original * scale / 100 < r + 1/2.
RoundedScaled(original, scale) ==
    CHOOSE r \in 0..(2 * original + 1) :
        /\ 200 * r - 100 <= 2 * original * scale
        /\ 2 * original * scale < 200 * r + 100

\* out is even, at least 10, within 1 of max(10, Math.round(original *
\* scale)) and equal to it when that is even.
EvenAtLeastTen(out, original, scale) ==
    LET r == RoundedScaled(original, scale)
        m == IF r > 10 THEN r ELSE 10
    IN /\ out % 2 = 0
       /\ out >= 10
       /\ out - m \in {0 - 1, 0, 1}
       /\ m % 2 = 0 => out = m

\* C18: each dimension calculateDimensions returns is even, at least 10,
\* and differs by at most 1 from max(10, round(original * scale)), which it
\* equals when that number is even.
C18_DimensionsEvenAtLeastTen ==
    dims.called =>
        /\ EvenAtLeastTen(dims.width, dims.originalWidth, dims.scale)
        /\ EvenAtLeastTen(dims.height, dims.originalHeight, dims.scale)

\* Width 101 at scale 0.5: round(50.5) = 51, made even as 52.
C18_Witness ==
    /\ dims.called
    /\ dims.originalWidth = 101 /\ dims.scale = 50
    /\ dims.width = 52
    /\ dims.originalHeight = 9 /\ dims.height = 10

\* C19: once a call of getVideoMetadata, of getAudioMetadata (the probe of
\* splitAudio) or of extractFrameFromVideo has settled, the object URL it
\* made is revoked, whichever way it settled; a call that made no URL (no
\* canvas context) has none to revoke.
C19_TemporaryUrlRevoked ==
    /\ probe.pc \in {"resolved", "rejected"} => probe.url = "revoked"
    /\ sp.pc \notin {"idle", "meta"} => sp.url = "revoked"
    /\ \A j \in FileIds :
          /\ xf.settled[j] \in {"resolved", "rejected"} => xf.url[j] # "live"
          /\ (xf.settled[j] = "resolved" \/ xf.errored[j]) => xf.url[j] = "revoked"

\* A batch of three files: the first gave its frame, the encoder returned
\* nothing for the second, the decoder failed on the third; the three URLs
\* are revoked.
C19_Witness ==
    /\ xf.pc = "resolved"
    /\ xf.n = 3
    /\ xf.settled[1] = "resolved"
    /\ xf.settled[2] = "rejected" /\ ~xf.errored[2] /\ xf.url[2] = "revoked"
    /\ xf.settled[3] = "rejected" /\ xf.errored[3]
    /\ \A j \in 1..3 : xf.url[j] = "revoked"

\* What the FrameExtractor page renders from: the selected files, the two
\* selects, the button and upload zone (isProcessing), the list of
\* extracted frames.
FxShown(page) ==
    [files |-> page.files, framePosition |-> page.framePosition,
     outputFormat |-> page.outputFormat, isProcessing |-> page.isProcessing,
     extractedFrames |-> page.extractedFrames]

\* C20: after a batch in which every file failed, the FrameExtractor page
\* does not show what it shows when the same files are selected and
\* nothing has run yet.
C20_AllFailedIsShown ==
    (scenario = "FrameExtractor" /\ fx.lastBatch = "allFailed") =>
        FxShown(fx) # FxShown([FxInitial EXCEPT !.files = fx.files])

\* canvas.getContext("2d") returned null for file j: the promise of
\* extractFrameFromVideo rejected before any object URL was made.
CanvasUnavailable(j) == xf.settled[j] = "rejected" /\ xf.url[j] = "none"

\* C21: a missing canvas 2D context is fatal for the batch: once it occurred
\* for file j, extractFrames takes up no later file and does not resolve.
C21_CanvasFailureAborts ==
    \A j \in FileIds :
        CanvasUnavailable(j) => (xf.i = j /\ xf.pc # "resolved")

\* C22: for every extractAudioFromVideo run, also one on an engine that
\* earlier runs used, the percents its onProgress receives never decrease,
\* complete is the last event it ever receives, and a resolved run has
\* received complete at 100.
C22_ExtractProgressSealed ==
    scenario = "extractAudioFromVideo" =>
        /\ \A r \in 1..MaxRuns :
              /\ NonDecreasing(progLog[r])
              /\ \A j \in 1..Len(progLog[r]) :
                    progLog[r][j].stage = "complete" => j = Len(progLog[r])
        /\ (xa.pc = "resolved" /\ run > 0) =>
              Last(progLog[run]) = [stage |-> "complete", progress |-> 100]

\* C23: a convertVideoToGif run settles once, and once its promise is
\* rejected the run does nothing more: no step of the same run emits a
\* progress event, requests a seek, captures a frame or changes the outcome.
C23_ErroredIsFinal ==
    [][(scenario = "convertVideoToGif" /\ gf.settle = "rejected" /\ run' = run)
          => /\ gf'.settle = "rejected"
             /\ progLog' = progLog
             /\ gf'.frames = gf.frames
             /\ gf'.i = gf.i /\ gf'.seekTime = gf.seekTime]_vars

\* The k-th engine operation of a splitAudio run of N segments, as
\* <<operation, file name>>: write(input), then exec, read and delete of
\* output 1, ..., of output N, then delete(input).
PlannedOp(k, N) ==
    LET input == "input." \o AudioFile.ext
        segment == (k - 2) \div 3 + 1
        output == "output-segment-" \o PadStart3(segment) \o "." \o AudioFile.ext
    IN IF k = 1 THEN <<"write", input>>
       ELSE IF k = 3 * N + 2 THEN <<"delete", input>>
       ELSE <<CASE (k - 2) % 3 = 0 -> "exec"
                [] (k - 2) % 3 = 1 -> "read"
                [] (k - 2) % 3 = 2 -> "delete", output>>

\* The engine operation a splitAudio run is waiting for, "" when none.
PendingOp(pc) ==
    CASE pc = "write" -> "write"
      [] pc = "exec" -> "exec"
      [] pc = "read" -> "read"
      [] pc \in {"delOut", "delIn"} -> "delete"
      [] OTHER -> ""

\* C24: the engine operations of one splitAudio run are, in this order,
\* write(input), then exec(i), read(output i), delete(output i) for
\* i = 1..N, then delete(input); an operation is issued only when the one
\* before it has settled, so the only one in flight is the last one issued.
C24_EngineOpsInOrder ==
    scenario = "splitAudio" =>
        /\ Len(opLog) <= 3 * sp.N + 2
        /\ \A k \in 1..Len(opLog) :
              <<opLog[k].op, opLog[k].name>> = PlannedOp(k, sp.N)
        /\ sp.pc \in {"idle", "meta", "acquire", "fetchFile"} => opLog = <<>>
        /\ PendingOp(sp.pc) # "" =>
              opLog # <<>> /\ Last(opLog).op = PendingOp(sp.pc)
        /\ sp.pc = "resolved" => Len(opLog) = 3 * sp.N + 2

\* A run of three segments resolved after its eleven operations.
C24_Witness ==
    /\ scenario = "splitAudio"
    /\ sp.pc = "resolved"
    /\ sp.N = 3
    /\ Len(opLog) = 11

\* min(startTime + maxDuration, videoDuration) - startTime, in milliseconds.
ClipDuration(g) ==
    (IF g.start + g.maxDur < g.vdur THEN g.start + g.maxDur ELSE g.vdur) - g.start

\* C25: convertVideoToGif samples ceil(clipDuration * fps) frames, the i-th
\* (from 0) at startTime + i / fps, and every seek time it requests is
\* strictly below the duration of the video.
C25_FrameSamplingPlan ==
    (scenario = "convertVideoToGif" /\ gf.N > 0) =>
        /\ gf.N = CeilDiv(ClipDuration(gf) * gf.fps, 1000)
        /\ gf.pc = "seek" =>
              /\ gf.seekTime = gf.start + (gf.i * 1000) \div gf.fps
              /\ gf.seekTime < gf.vdur

\* No metadata probe of the page is pending.
ProbesSettled == \A k \in 1..Len(effect.probes) : effect.probes[k].pc # "pending"

\* C26: once every pending metadata probe has settled, the metadata a tool
\* page shows is that of the selected file, and null when no file is
\* selected (null also stands when the probe of the selected file failed).
C26_MetadataOfSelection ==
    (scenario = "useEffect" /\ ProbesSettled) =>
        /\ effect.files = 0 => effect.metadata = 0
        /\ effect.metadata # 0 => effect.metadata = effect.files

\* C27: on a tool page at most one pipeline run is in flight: while the
\* promise of a run the page started is pending, no further run is started
\* and the file selection does not change.
C27_OneRunInFlight ==
    [][(scenario = "VideoToGif" /\ gf.settle = "pending")
          => (run' = run /\ pg'.files = pg.files)]_vars

\* C30: when the run a tool page awaited has settled, isProcessing is false
\* again; after a failed run the error is set and the results list is
\* empty, after a successful run the error is null and the results list
\* holds the artifact of that run and nothing else.
C30_SettledRunIsShown ==
    scenario = "VideoToGif" =>
        /\ pg.lastRun = "rejected" =>
              ~pg.isProcessing /\ pg.error # "" /\ pg.processedFiles = <<>>
        /\ pg.lastRun = "resolved" =>
              /\ ~pg.isProcessing /\ pg.error = ""
              /\ Len(pg.processedFiles) = 1 /\ pg.processedFiles[1].run = run

\* C28: the artifacts one extractFrames batch returns have pairwise distinct
\* names whenever the input files have pairwise distinct names, so that the
\* archive made of them has one entry per artifact.
C28_DistinctArtifactNames ==
    xf.pc = "resolved" =>
        \A a, b \in 1..Len(xf.ret) :
            (a # b /\ FrameFileName(xf.ret[a].src) # FrameFileName(xf.ret[b].src))
                => xf.name[xf.ret[a].src] # xf.name[xf.ret[b].src]

(***************************************************************************)
(* getOriginalFileForComparison(index, originalFiles, processedFiles)      *)
(***************************************************************************)
\* Indexes are the code's, counted from 0; files are their position in the
\* batch (1..n) and 0 is null.
getOriginalFileForComparison(index, originalFiles, processedFiles) ==
    IF /\ index >= 0
       /\ index < Len(originalFiles)
       /\ index < Len(processedFiles)
    THEN originalFiles[index + 1]
    ELSE 0

\* The files handed to extractFrames, in order.
OriginalFiles == [j \in 1..xf.n |-> j]

\* C29: for a returned batch, getOriginalFileForComparison gives for every
\* index of the processed list the original file that artifact was extracted
\* from, and null for an index outside both lists, also when some files of
\* the batch failed.
C29_ComparisonFindsSource ==
    xf.pc = "resolved" =>
        \A index \in (0 - 1)..(xf.n + 1) :
            LET found == getOriginalFileForComparison(index, OriginalFiles, xf.ret)
            IN /\ (index >= 0 /\ index < Len(xf.ret)) => found = xf.ret[index + 1].src
               /\ (index < 0 \/ (index >= xf.n /\ index >= Len(xf.ret))) => found = 0

====
